---- MODULE Spec2Model ----
(***************************************************************************)
(* BoltConn flow plane: the dispatching engine (dispatch/dispatching.rs)   *)
(* and the outbound chain executor (adapter/chain.rs).                     *)
(*                                                                         *)
(* Spec      : the dispatching engine (build, overlay update, group        *)
(*             selection, matches on a ConnInfo).                          *)
(* ChainSpec : one run of ChainOutbound::spawn.                            *)
(***************************************************************************)
EXTENDS Integers, Sequences, FiniteSets, TLC

VARIABLES
  built,      \* the Dispatching produced by the builder (or none / build error)
  sel,        \* ProxyGroup selection: group name -> selected member name
  dns,        \* current answers of the resolver: domain name -> address or "None"
  info,       \* the ConnInfo object handed to matches (by mutable reference)
  last,       \* record of the last matches call on `info`
  rep,        \* comparison of the last two calls on the same ConnInfo object
  chain,      \* ChainOutbound.chains: the hops of the chain under execution
  cpc,        \* position of the chain task
  cidx,       \* index of the next non-terminal hop
  use_tcp,    \* chain.rs: use_tcp (the carrier)
  tcp_slot,   \* chain.rs: inbound_tcp_container
  udp_slot,   \* chain.rs: inbound_udp_container
  not_first,  \* chain.rs: not_first_jump
  conns,      \* kinds of the Connector pairs created so far, in order
  carrier0,   \* the carrier the chain was spawned with
  calls,      \* log of the calls the executor made on its hops
  cresult,    \* completion of the chain's own task
  term,       \* state of the task spawned for the terminal hop
  cfg,        \* the configuration handed to the builder
  bld,        \* what the builder returned for cfg
  mrun,       \* one call of Dispatching::matches running beside the updates
  live,       \* main.rs: the objects the running process serves with
  rpc,        \* main.rs: position of the reload loop
  task,       \* smol.rs: TcpConnTask (rx, remain_to_send)
  sock,       \* smol.rs: the smoltcp socket the task pushes into
  app,        \* smol.rs: the application side of the task (back_tx / back_rx)
  stack,      \* smol.rs: SmolStack (tcp_conn, udp_conn, socket_set) and its surroundings
  inb,        \* proxy: one connection accepted by the HTTP or the SOCKS5 inbound
  nat,        \* proxy: the SessionManager table, its clock and the TUN TCP listener
  main,       \* main.rs: the position of main and the exit code of the process
  drv         \* smol.rs: the forwarding task, the Notify, the drive loop and the buffer pool

dvars == <<built, sel, dns, info, last, rep>>
cvars == <<chain, cpc, cidx, use_tcp, tcp_slot, udp_slot, not_first, conns, carrier0, calls, cresult, term>>
\* the variables of the other components
rvars == <<live, rpc>>
tvars == <<task, sock, app>>
svars == <<stack, inb, nat, main, drv>>
xvars == <<cfg, bld, mrun, live, rpc, task, sock, app, stack, inb, nat, main, drv>>
vars == <<built, sel, dns, info, last, rep,
          chain, cpc, cidx, use_tcp, tcp_slot, udp_slot, not_first, conns, carrier0, calls, cresult, term,
          cfg, bld, mrun, live, rpc, task, sock, app, stack, inb, nat, main, drv>>

None == "None"

----------------------------------------------------------------------------
(* Bounds *)

\* longest rule_local list handed to build (fallback line included)
MaxRules == 3
\* longest list handed to update_temporary_list / state.temporary_list
MaxTemp == 1
\* longest chain
MaxHops == 3
\* number of restart requests the reload loop receives
MaxReloads == 3
\* longest buffer, number of bytes and number of buffers an application hands to a TcpConnTask
MaxBuf == 3
MaxBytes == 4
MaxBufs == 3
\* capacity of the bounded channels of the Connector handed to a task of the stack
ConnectorCapacity == 1
\* calls of open_tcp / open_udp, buffers written by the applications, datagrams
\* or segments waiting in a socket, and the clock, in a run of the stack
MaxOpens == 2
MaxWrites == 1
MaxInq == 1
\* Proxy-Authorization headers in one HTTP request
MaxCreds == 2
MaxTime == 2
\* the stack's udp_timeout, in ticks of the clock
UdpTimeout == 1
\* connections accepted on the NAT listener
MaxAccepts == 1
\* flushes of the session table in a run
MaxFlushes == 2
\* main.rs 349: seconds between two flushes of the session table
FlushInterval == 30
\* spec 4.1: seconds an entry stays after its indicator reached 0, and the
\* idle time of a UDP entry
Grace == 30
NatUdpTimeout == 300

RECURSIVE SeqsUpTo(_, _)
SeqsUpTo(S, n) ==
  IF n = 0 THEN {<<>>}
  ELSE LET shorter == SeqsUpTo(S, n - 1)
       IN shorter \cup {Append(s, x) : s \in {t \in shorter : Len(t) = n - 1}, x \in S}

----------------------------------------------------------------------------
(* Proxies, groups *)

\* DispatchingBuilder::empty registers DIRECT and REJECT; H is a configured
\* HTTP proxy (no UDP support).
ProxyNames == {"DIRECT", "REJECT", "H"}
GroupNames == {"G"}
GroupMembers == [G |-> <<"DIRECT", "H">>]
GroupIface == [G |-> "eth0"]

ProxyImplOf(name) ==
  CASE name = "DIRECT" -> "Direct"
    [] name = "REJECT" -> "Reject"
    [] name = "H" -> "Http"

Single(name) == [t |-> "Single", name |-> name]
Group(name) == [t |-> "Group", name |-> name]
NoProxy == [t |-> "None", name |-> None]

\* RuleBuilder resolves a proxy name against proxies, then groups.
LookupProxy(name) ==
  IF name \in ProxyNames THEN Single(name)
  ELSE IF name \in GroupNames THEN Group(name)
  ELSE NoProxy

support_udp(impl) == impl \in {"Direct", "Reject"}

Decision(impl, iface) == [impl |-> impl, iface |-> iface]
NoMatch == Decision("NoMatch", None)

\* GeneralProxy::get_impl: a group resolves to its currently selected member;
\* the group's interface override applies.  A snippet without a fallback
\* proxy has nothing to resolve: no decision.
get_impl(proxy, s) ==
  CASE proxy.t = "Single" -> Decision(ProxyImplOf(proxy.name), None)
    [] proxy.t = "Group" -> Decision(ProxyImplOf(s[proxy.name]), GroupIface[proxy.name])
    [] proxy.t = "None" -> NoMatch

----------------------------------------------------------------------------
(* ConnInfo *)

Raw(a) == [t |-> "Raw", a |-> a]
DomainName(n) == [t |-> "DomainName", a |-> n]

Domains == {"a.com"}
Addrs == {"ip1", "ip2"}
Dsts == {DomainName("a.com"), Raw("ip1")}
NetworkTypes == {"Tcp", "Udp"}
Processes == {None, "curl"}

ConnInfo(dst, resolved, ty, proc) ==
  [src |-> "src1", dst |-> dst, inbound |-> "Tun", resolved_dst |-> resolved,
   connection_type |-> ty, process_info |-> proc]

\* a ConnInfo as the inbounds construct it: nothing resolved yet
FreshConnInfos == {ConnInfo(d, None, ty, p) : d \in Dsts, ty \in NetworkTypes, p \in Processes}

socketaddr(i) ==
  IF i.dst.t = "Raw" THEN i.dst.a ELSE i.resolved_dst

\* LocalResolve::resolve_to: resolves the dst hostname with the configured
\* resolver and writes the answer into resolved_dst.
resolve_to(i, d) ==
  IF i.dst.t = "DomainName" THEN [i EXCEPT !.resolved_dst = d[i.dst.a]] ELSE i

\* Rule::matches, for the three predicate kinds of the model
Pred(k, v) == [k |-> k, v |-> v]
RuleMatches(pred, i) ==
  CASE pred.k = "DOMAIN" -> i.dst.t = "DomainName" /\ i.dst.a = pred.v
    [] pred.k = "IP-CIDR" -> socketaddr(i) = pred.v
    [] pred.k = "PROCESS-NAME" -> i.process_info = pred.v

----------------------------------------------------------------------------
(* Evaluation of compiled rules *)

\* One step of an evaluation: which entry of which list was consulted, and
\* whether it produced the decision.  path is the index of the entry, prefixed
\* by the index of the enclosing SubDispatch entries; a fallback has the path
\* of its snippet.
Ev(where, path, what, hit, proxy) ==
  [where |-> where, path |-> path, what |-> what, hit |-> hit, proxy |-> proxy]

Result(dec, i, trace) == [dec |-> dec, info |-> i, trace |-> trace]
Prepend(e, r) == [r EXCEPT !.trace = <<e>> \o r.trace]

Env(s, d) == [sel |-> s, dns |-> d]

proxy_filtering_nocheck(proxy, i, s) == get_impl(proxy, s)

proxy_filtering(proxy, i, s) ==
  LET d == get_impl(proxy, s)
  IN IF ~support_udp(d.impl) /\ i.connection_type = "Udp"
     THEN Decision("Reject", None)
     ELSE d

RECURSIVE SnippetLoop(_, _, _, _, _, _)
RECURSIVE SubDispatch_matches(_, _, _, _, _)

DispatchingSnippet_matches(snip, i, env, where, path) ==
  SnippetLoop(snip, 1, i, env, where, path)

\* SubDispatch::matches: when the predicate holds the sub-snippet is
\* evaluated and its decision returned; otherwise there is no match.
SubDispatch_matches(sub, i, env, where, path) ==
  IF RuleMatches(sub.pred, i)
  THEN DispatchingSnippet_matches(sub.snippet, i, env, where, path)
  ELSE Result(NoMatch, i, <<>>)

IsFallbackEv(e) == e.what = "fallback"

\* a matching rule does not end the evaluation: a later match overrides it
OnRule_lastwins(snip, k, i, env, where, path) ==
  LET v == snip.rules[k]
      at == Append(path, k)
      rest == SnippetLoop(snip, k + 1, i, env, where, path)
  IN IF RuleMatches(v.pred, i)
     THEN IF IsFallbackEv(rest.trace[Len(rest.trace)])
          THEN Result(proxy_filtering(v.proxy, i, env.sel), i,
                      <<Ev(where, at, "rule", TRUE, v.proxy)>>)
          ELSE Prepend(Ev(where, at, "rule", FALSE, NoProxy), rest)
     ELSE Prepend(Ev(where, at, "rule", FALSE, NoProxy), rest)

\* entry k is RuleOrAction::Rule
OnRule(snip, k, i, env, where, path) ==
  LET v == snip.rules[k]
      at == Append(path, k)
  IN IF RuleMatches(v.pred, i)
     THEN Result(proxy_filtering(v.proxy, i, env.sel), i,
                 <<Ev(where, at, "rule", TRUE, v.proxy)>>)
     ELSE Prepend(Ev(where, at, "rule", FALSE, NoProxy),
                  SnippetLoop(snip, k + 1, i, env, where, path))

\* the resolved address replaces dst
OnLocalResolve_rewritedst(snip, k, i, env, where, path) ==
  LET r == resolve_to(i, env.dns)
  IN Prepend(Ev(where, Append(path, k), "resolve", FALSE, NoProxy),
             SnippetLoop(snip, k + 1,
                         IF r.resolved_dst # None THEN [r EXCEPT !.dst = Raw(r.resolved_dst)] ELSE r,
                         env, where, path))

\* entry k is Action::LocalResolve
OnLocalResolve(snip, k, i, env, where, path) ==
  Prepend(Ev(where, Append(path, k), "resolve", FALSE, NoProxy),
          SnippetLoop(snip, k + 1, resolve_to(i, env.dns), env, where, path))

\* the sub-dispatch's decision is dropped and the loop goes on
OnSubDispatch_noreturn(snip, k, i, env, where, path) ==
  LET at == Append(path, k)
      r == SubDispatch_matches(snip.rules[k], i, env, where, at)
      rest == SnippetLoop(snip, k + 1, r.info, env, where, path)
  IN [rest EXCEPT !.trace =
        <<Ev(where, at, "sub", r.dec # NoMatch, NoProxy)>> \o r.trace \o rest.trace]

\* entry k is Action::SubDispatch
OnSubDispatch(snip, k, i, env, where, path) ==
  LET at == Append(path, k)
      r == SubDispatch_matches(snip.rules[k], i, env, where, at)
  IN IF r.dec # NoMatch
     THEN Prepend(Ev(where, at, "sub", TRUE, NoProxy), r)
     ELSE LET rest == SnippetLoop(snip, k + 1, r.info, env, where, path)
          IN [rest EXCEPT !.trace =
                <<Ev(where, at, "sub", FALSE, NoProxy)>> \o r.trace \o rest.trace]

\* the for loop of DispatchingSnippet::matches, from entry k on, and the
\* fallback after it
SnippetLoop(snip, k, i, env, where, path) ==
  IF k > Len(snip.rules)
  THEN Result(proxy_filtering(snip.fallback, i, env.sel), i,
              <<Ev(where, path, "fallback", TRUE, snip.fallback)>>)
  ELSE CASE snip.rules[k].t = "Rule" -> OnRule(snip, k, i, env, where, path)
         [] snip.rules[k].t = "LocalResolve" -> OnLocalResolve(snip, k, i, env, where, path)
         [] snip.rules[k].t = "SubDispatch" -> OnSubDispatch(snip, k, i, env, where, path)

\* TemporaryList::matches: the same linear evaluation over the overlay's
\* list, without a fallback: no match when the list is exhausted.
RECURSIVE TemporaryLoop(_, _, _, _)
TemporaryLoop(list, k, i, env) ==
  IF k > Len(list)
  THEN Result(NoMatch, i, <<>>)
  ELSE LET v == list[k]
           at == <<k>>
       IN CASE v.t = "Rule" ->
                 IF RuleMatches(v.pred, i)
                 THEN Result(proxy_filtering(v.proxy, i, env.sel), i,
                             <<Ev("temp", at, "rule", TRUE, v.proxy)>>)
                 ELSE Prepend(Ev("temp", at, "rule", FALSE, NoProxy),
                              TemporaryLoop(list, k + 1, i, env))
            [] v.t = "LocalResolve" ->
                 Prepend(Ev("temp", at, "resolve", FALSE, NoProxy),
                         TemporaryLoop(list, k + 1, resolve_to(i, env.dns), env))
            [] v.t = "SubDispatch" ->
                 LET r == SubDispatch_matches(v, i, env, "temp", at)
                 IN IF r.dec # NoMatch
                    THEN Prepend(Ev("temp", at, "sub", TRUE, NoProxy), r)
                    ELSE LET rest == TemporaryLoop(list, k + 1, r.info, env)
                         IN [rest EXCEPT !.trace =
                               <<Ev("temp", at, "sub", FALSE, NoProxy)>> \o r.trace \o rest.trace]

TemporaryList_matches(list, i, env) == TemporaryLoop(list, 1, i, env)

\* the main snippet is evaluated whether or not the overlay matched
Dispatching_matches_eager(d, i, env) ==
  LET t == TemporaryList_matches(d.temporary_list, i, env)
      m == DispatchingSnippet_matches(d.snippet, t.info, env, "main", <<>>)
  IN IF t.dec # NoMatch
     THEN [t EXCEPT !.trace = t.trace \o m.trace, !.info = m.info]
     ELSE [m EXCEPT !.trace = t.trace \o m.trace]

Dispatching_matches(d, i, env) ==
  LET t == TemporaryList_matches(d.temporary_list, i, env)
  IN IF t.dec # NoMatch
     THEN t
     ELSE LET m == DispatchingSnippet_matches(d.snippet, t.info, env, "main", <<>>)
          IN [m EXCEPT !.trace = t.trace \o m.trace]

----------------------------------------------------------------------------
(* Configuration lines and the builder *)

NoPred == Pred("bad", None)

\* RuleConfigLine::Simple(text): a rule literal, a fallback literal, or text
\* that parses as neither
SimpleRule(pred, proxy) == [t |-> "Simple", k |-> "rule", pred |-> pred, proxy |-> proxy]
SimpleFallback(proxy) == [t |-> "Simple", k |-> "fallback", pred |-> NoPred, proxy |-> proxy]
SimpleBad == [t |-> "Simple", k |-> "bad", pred |-> NoPred, proxy |-> None]
\* RuleConfigLine::Complex(RuleAction::LocalResolve | RuleAction::SubDispatch)
LocalResolveLine == [t |-> "LocalResolve"]
SubDispatchLine(matches, subrules) ==
  [t |-> "SubDispatch", matches |-> matches, subrules |-> subrules]

\* RuleBuilder::parse_fallback, append_literal, parse_incomplete
parse_fallback_ok(r) == r.k = "fallback" /\ LookupProxy(r.proxy) # NoProxy
append_literal_ok(r) == r.k = "rule" /\ r.pred.k # "bad" /\ LookupProxy(r.proxy) # NoProxy
parse_incomplete_ok(m) == m.k # "bad"

RuleEntry(pred, proxy) == [t |-> "Rule", pred |-> pred, proxy |-> proxy]
LocalResolveEntry == [t |-> "LocalResolve"]
SubDispatchEntry(pred, snip) == [t |-> "SubDispatch", pred |-> pred, snippet |-> snip]
Snippet(rules, fallback) == [rules |-> rules, fallback |-> fallback]

BuildOk(rules, fallback) == [ok |-> TRUE, err |-> None, rules |-> rules, fallback |-> fallback]
BuildErr(e) == [ok |-> FALSE, err |-> e, rules |-> <<>>, fallback |-> NoProxy]

RECURSIVE LooselyFrom(_, _, _)
RECURSIVE build_rules(_)

build_rules_loosely(rules) == LooselyFrom(rules, 1, <<>>)

\* build_rules without the check of the fallback
build_rules_unchecked(rules) == build_rules_loosely(rules)

\* build_rules falling back to REJECT, as build_filter does
build_rules_defaultreject(rules) ==
  LET r == build_rules_loosely(rules)
  IN IF r.ok /\ r.fallback = NoProxy
     THEN BuildOk(r.rules, Single("REJECT"))
     ELSE r

build_rules(rules) ==
  LET r == build_rules_loosely(rules)
  IN IF r.ok /\ r.fallback = NoProxy
     THEN BuildErr("Bad rules: missing fallback")
     ELSE r

\* the for loop of build_rules_loosely, from line idx on; acc is what
\* rule_builder holds
LooselyFrom(rules, idx, acc) ==
  IF idx > Len(rules)
  THEN BuildOk(acc, NoProxy)
  ELSE LET line == rules[idx]
       IN CASE line.t = "LocalResolve" ->
                 LooselyFrom(rules, idx + 1, Append(acc, LocalResolveEntry))
            [] line.t = "SubDispatch" ->
                 IF parse_incomplete_ok(line.matches)
                 THEN LET sub == build_rules(line.subrules)
                      IN IF sub.ok
                         THEN LooselyFrom(rules, idx + 1,
                                Append(acc, SubDispatchEntry(line.matches,
                                                             Snippet(sub.rules, sub.fallback))))
                         ELSE sub
                 ELSE BuildErr("Invalid matches")
            [] line.t = "Simple" ->
                 IF idx = Len(rules) /\ parse_fallback_ok(line)
                 THEN BuildOk(acc, LookupProxy(line.proxy))
                 ELSE IF append_literal_ok(line)
                      THEN LooselyFrom(rules, idx + 1,
                             Append(acc, RuleEntry(line.pred, LookupProxy(line.proxy))))
                      ELSE BuildErr("bad rule literal")

build_temporary_list(list) ==
  LET r == build_rules_loosely(list)
  IN IF ~r.ok THEN r
     ELSE IF r.fallback = NoProxy THEN r
     ELSE BuildErr("Unexpected Fallback")

NotBuilt == [status |-> "none", temporary_list |-> <<>>, snippet |-> Snippet(<<>>, NoProxy)]
BuildFailed == [status |-> "err", temporary_list |-> <<>>, snippet |-> Snippet(<<>>, NoProxy)]
DispatchingOf(temp, snip) == [status |-> "ok", temporary_list |-> temp, snippet |-> snip]

\* Option<Vec<RuleConfigLine>> of state.temporary_list
NoList == [some |-> FALSE, list |-> <<>>]
SomeList(l) == [some |-> TRUE, list |-> l]

\* DispatchingBuilder::build
build(rule_local, temporary_list) ==
  LET r == build_rules(rule_local)
  IN IF ~r.ok THEN BuildFailed
     ELSE LET t == IF temporary_list.some
                   THEN build_temporary_list(temporary_list.list)
                   ELSE BuildOk(<<>>, NoProxy)
          IN IF ~t.ok THEN BuildFailed
             ELSE DispatchingOf(t.rules, Snippet(r.rules, r.fallback))

\* DispatchingBuilder::build_filter: every rule gets ", DIRECT" appended;
\* the fallback is REJECT
RECURSIVE FilterFrom(_, _, _)
FilterFrom(rules, idx, acc) ==
  IF idx > Len(rules)
  THEN BuildOk(acc, Single("REJECT"))
  ELSE LET line == SimpleRule(rules[idx], "DIRECT")
       IN IF append_literal_ok(line)
          THEN FilterFrom(rules, idx + 1, Append(acc, RuleEntry(line.pred, LookupProxy(line.proxy))))
          ELSE BuildErr("bad rule literal")

build_filter(rules) ==
  LET r == FilterFrom(rules, 1, <<>>)
  IN IF ~r.ok THEN BuildFailed
     ELSE DispatchingOf(<<>>, Snippet(r.rules, r.fallback))

----------------------------------------------------------------------------
(* Inputs of the dispatching engine *)

PredIp == Pred("IP-CIDR", "ip1")
PredDomain == Pred("DOMAIN", "a.com")
PredProcess == Pred("PROCESS-NAME", "curl")

\* sub-rule lists of a SubDispatch line: with and without a fallback
SubRules == <<SimpleRule(PredDomain, "H"), SimpleFallback("REJECT")>>
SubRulesNoFallback == <<SimpleRule(PredDomain, "H")>>

RuleAtoms ==
  {SimpleRule(PredIp, "H"), SimpleRule(PredDomain, "G"), SimpleFallback("DIRECT"),
   SimpleBad, LocalResolveLine,
   SubDispatchLine(PredProcess, SubRules), SubDispatchLine(PredProcess, SubRulesNoFallback),
   SubDispatchLine(NoPred, SubRules)}
RuleLists == SeqsUpTo(RuleAtoms, MaxRules)

TempAtoms ==
  {SimpleRule(PredIp, "H"), SimpleFallback("DIRECT"), SimpleBad, LocalResolveLine}
TempLists == SeqsUpTo(TempAtoms, MaxTemp)

FilterAtoms == {PredIp, PredDomain, NoPred}
FilterLists == SeqsUpTo(FilterAtoms, MaxTemp)

DnsTables == [Domains -> Addrs]
Selections == {s \in [GroupNames -> ProxyNames] :
                 \A g \in GroupNames : \E k \in 1..Len(GroupMembers[g]) : GroupMembers[g][k] = s[g]}

----------------------------------------------------------------------------
(* State of the last call *)

NoCall == [called |-> FALSE]
Call(before, res) == [called |-> TRUE, before |-> before, res |-> res]
NoRep == [valid |-> FALSE]
Rep(sameValue, agree) == [valid |-> TRUE, sameValue |-> sameValue, agree |-> agree]

\* Option<T>: <<>> is None, <<x>> is Some(x)
Some(x) == <<x>>
Nothing == <<>>

\* main.rs 230-246: what the process serves with after start-up; every object
\* is named by the number of the load that built it, 0 being the start-up
Startup == 0
Live(api, dispatching, filter, modifier, resolvers) ==
  [api_dispatching |-> api, dispatching |-> dispatching,
   eavesdrop_filter |-> filter, modifier |-> modifier, resolvers |-> resolvers]
Loop(pc, gen, step, rewrite, prev, outcome) ==
  [pc |-> pc, gen |-> gen, step |-> step, rewrite |-> rewrite, prev |-> prev, outcome |-> outcome]
StartedLive == Live(Startup, Startup, Startup, Startup, Startup)
ReloadIdle ==
  /\ live = StartedLive
  /\ rpc = Loop("select", Startup, 0, FALSE, StartedLive, "none")

\* smol.rs 34-61: TcpConnTask::new, nothing handed over by the application yet
\* `disconnected`: the sender of the flume channel `rx` reads from is dropped
TcpConnTask(rx, remain_to_send, aborted) ==
  [rx |-> rx, remain_to_send |-> remain_to_send, aborted |-> aborted, disconnected |-> FALSE]
TaskIdle ==
  /\ task = TcpConnTask(<<>>, Nothing, FALSE)
  /\ sock = [tx |-> <<>>, state |-> "Established"]
  /\ app = [back |-> <<>>, bytes |-> 0, bufs |-> 0]

\* smol.rs 222-240: SmolStack::new. `opened` counts the calls of open_tcp and
\* open_udp (it names the AbortHandle of each call), `pending` are the cancel
\* tasks spawned and not run yet, `cancelled` the AbortHandles cancelled,
\* `last` the last call of open_tcp or open_udp and what it returned
EmptyMap == <<>>
NoOp == [op |-> "new", port |-> "none", res |-> "Ok"]
SmolStack(tcp_conn, udp_conn, socket_set) ==
  [tcp_conn |-> tcp_conn, udp_conn |-> udp_conn, socket_set |-> socket_set,
   opened |-> 0, pending |-> {}, cancelled |-> {}, now |-> 0, writes |-> 0, last |-> NoOp]
StackIdle == stack = SmolStack(EmptyMap, EmptyMap, EmptyMap)

\* proxy: no connection accepted yet
NoConn == [pc |-> "none"]
InboundIdle == inb = NoConn

\* the session NAT: no entry, the flush timer armed, the listener running
NoFlow == [port |-> "none"]
SessionManager(table, now, next_flush) ==
  [table |-> table, now |-> now, next_flush |-> next_flush, listening |-> TRUE,
   accepts |-> 0, port |-> "none", flow |-> NoFlow]
NatIdle == nat = SessionManager({}, 0, FlushInterval)

\* main has not started
ProcIdle == main = [pc |-> "start"]

\* the forwarding task waits in back_rx.recv(), the Notify holds no permit, the
\* drive loop is about to run a pass, the socket's buffers have room, every
\* buffer is in the pool
Driver(pos, permit, loop, window) ==
  [pos |-> pos, permit |-> permit, loop |-> loop, window |-> window, outside |-> 0]
DriveIdle == drv = Driver("recv", FALSE, "poll", TRUE)

\* no call of the builder yet
NoCfg == [kind |-> "none"]
NoRun == [pc |-> "idle"]
BuilderIdle == cfg = NoCfg /\ bld = NoCfg /\ mrun = NoRun /\ ReloadIdle /\ TaskIdle /\ StackIdle /\ InboundIdle /\ NatIdle /\ ProcIdle /\ DriveIdle

ChainIdle ==
  /\ chain = <<>> /\ cpc = "idle" /\ cidx = 0 /\ use_tcp = TRUE
  /\ tcp_slot = <<>> /\ udp_slot = <<>> /\ not_first = FALSE /\ conns = <<>>
  /\ carrier0 = None /\ calls = <<>> /\ cresult = None /\ term = None

Init ==
  /\ built = NotBuilt
  /\ sel \in Selections
  /\ dns \in DnsTables
  /\ info = ConnInfo(Raw("ip1"), None, "Tcp", None)
  /\ last = NoCall
  /\ rep = NoRep
  /\ ChainIdle
  /\ BuilderIdle

\* start-up: DispatchingBuilder::build on the loaded configuration
Build ==
  /\ built.status = "none"
  /\ \E rule_local \in RuleLists, temporary_list \in {NoList} \cup {SomeList(l) : l \in TempLists} :
       built' = build(rule_local, temporary_list)
  /\ UNCHANGED <<sel, dns, info, last, rep>>
  /\ UNCHANGED <<cvars, xvars>>

BuildFilter ==
  /\ built.status = "none"
  /\ \E rules \in FilterLists : built' = build_filter(rules)
  /\ UNCHANGED <<sel, dns, info, last, rep>>
  /\ UNCHANGED <<cvars, xvars>>

\* an inbound constructs a ConnInfo for a new flow
NewConn(i) ==
  /\ built.status = "ok"
  /\ info' = i
  /\ last' = NoCall
  /\ rep' = NoRep
  /\ UNCHANGED <<built, sel, dns>>
  /\ UNCHANGED <<cvars, xvars>>

\* a matching overlay is consumed by the call
Matches_consuming ==
  /\ built.status = "ok"
  /\ LET r == Dispatching_matches(built, info, Env(sel, dns))
     IN /\ info' = r.info
        /\ last' = Call(info, r)
        /\ rep' = IF last.called
                  THEN Rep(info = last.before, r.dec = last.res.dec)
                  ELSE NoRep
        /\ built' = IF \E n \in 1..Len(r.trace) : r.trace[n].where = "temp" /\ r.trace[n].hit
                    THEN [built EXCEPT !.temporary_list = <<>>]
                    ELSE built
  /\ UNCHANGED <<sel, dns>>
  /\ UNCHANGED <<cvars, xvars>>

\* Dispatching::matches(&self, info: &mut ConnInfo)
Matches ==
  /\ built.status = "ok"
  /\ LET r == Dispatching_matches(built, info, Env(sel, dns))
     IN /\ info' = r.info
        /\ last' = Call(info, r)
        /\ rep' = IF last.called
                  THEN Rep(info = last.before, r.dec = last.res.dec)
                  ELSE NoRep
  /\ UNCHANGED <<built, sel, dns>>
  /\ UNCHANGED <<cvars, xvars>>

\* Dispatching::update_temporary_list
UpdateTemporaryList(list) ==
  /\ built.status = "ok"
  /\ LET r == build_temporary_list(list)
     IN IF r.ok
        THEN /\ built' = [built EXCEPT !.temporary_list = r.rules]
             /\ last' = NoCall
             /\ rep' = NoRep
        ELSE UNCHANGED <<built, last, rep>>
  /\ UNCHANGED <<sel, dns, info>>
  /\ UNCHANGED <<cvars, xvars>>

\* Dispatching::set_group_selection; ProxyGroup::set_selection accepts a
\* member of the group
SetGroupSelection(group, proxy) ==
  /\ built.status = "ok"
  /\ IF group \in GroupNames /\ \E k \in 1..Len(GroupMembers[group]) : GroupMembers[group][k] = proxy
     THEN /\ sel' = [sel EXCEPT ![group] = proxy]
          /\ last' = NoCall
          /\ rep' = NoRep
     ELSE UNCHANGED <<sel, last, rep>>
  /\ UNCHANGED <<built, dns, info>>
  /\ UNCHANGED <<cvars, xvars>>

\* the resolver's answers change (environment)
DnsChange(d) ==
  /\ built.status = "ok"
  /\ d # dns
  /\ dns' = d
  /\ last' = NoCall
  /\ rep' = NoRep
  /\ UNCHANGED <<built, sel, info>>
  /\ UNCHANGED <<cvars, xvars>>

Next ==
  \/ Build
  \/ BuildFilter
  \/ \E i \in FreshConnInfos : NewConn(i)
  \/ Matches
  \/ \E l \in TempLists : UpdateTemporaryList(l)
  \/ \E g \in GroupNames \cup {"X"}, p \in ProxyNames : SetGroupSelection(g, p)
  \/ \E d \in DnsTables : DnsChange(d)

Spec == Init /\ [][Next]_vars

----------------------------------------------------------------------------
(* The chain executor: ChainOutbound::spawn *)

\* outbound_type() of a hop: its tcp_transfer_type and udp_transfer_type
HopTypes == [tcp : {"Tcp", "TcpOverUdp"}, udp : {"Udp", "UdpOverTcp", "NotSupported"}]
Chains == SeqsUpTo(HopTypes, MaxHops) \ {<<>>}


\* the two halves of the n-th Connector pair created by new_pair
\* new_pair(10): the capacity every pair of the executor is created with
PairCapacity == 10
Inner(n) == [pair |-> n, half |-> "inner", cap |-> PairCapacity]
Outer(n) == [pair |-> n, half |-> "outer", cap |-> PairCapacity]
\* the Connector the chain was spawned with
Inbound0 == [pair |-> 0, half |-> "outer"]

HopCall(hop, op, inbound, tcp_out, udp_out, flag) ==
  [hop |-> hop, op |-> op, inbound |-> inbound, tcp_out |-> tcp_out, udp_out |-> udp_out,
   flag |-> flag]

\* the locals of the task: use_tcp, the two containers, the pairs created
Locals(u, t, d, c) == [use_tcp |-> u, tcp_slot |-> t, udp_slot |-> d, conns |-> c]
Step(panic, locals, call) == [panic |-> panic, locals |-> locals, call |-> call]
Panicked(l) == Step(TRUE, l, <<>>)

\* the UdpOverTcp branch without `use_tcp = true`
HopStep_keepcarrier(tunnel, h, l, nf) ==
  LET n == Len(l.conns) + 1
  IN IF l.use_tcp
     THEN IF l.tcp_slot = Nothing THEN Panicked(l)
          ELSE IF tunnel.tcp = "TcpOverUdp"
               THEN Step(FALSE, Locals(FALSE, Nothing, Some(Outer(n)), Append(l.conns, "datagram")),
                         Some(HopCall(h, "spawn_tcp_with_outbound", l.tcp_slot[1],
                                      Nothing, Some(Inner(n)), Nothing)))
               ELSE Step(FALSE, Locals(TRUE, Some(Outer(n)), l.udp_slot, Append(l.conns, "byte")),
                         Some(HopCall(h, "spawn_tcp_with_outbound", l.tcp_slot[1],
                                      Some(Inner(n)), Nothing, Nothing)))
     ELSE IF l.udp_slot = Nothing THEN Panicked(l)
          ELSE IF tunnel.udp = "UdpOverTcp"
               THEN Step(FALSE, Locals(FALSE, Some(Outer(n)), Nothing, Append(l.conns, "byte")),
                         Some(HopCall(h, "spawn_udp_with_outbound", l.udp_slot[1],
                                      Some(Inner(n)), Nothing, Some(nf))))
               ELSE Step(FALSE, Locals(FALSE, l.tcp_slot, Some(Outer(n)), Append(l.conns, "datagram")),
                         Some(HopCall(h, "spawn_udp_with_outbound", l.udp_slot[1],
                                      Nothing, Some(Inner(n)), Some(nf))))

\* the TcpOverUdp branch without `inbound_udp_container = Some(outer)`
HopStep_forgetouter(tunnel, h, l, nf) ==
  LET n == Len(l.conns) + 1
  IN IF l.use_tcp
     THEN IF l.tcp_slot = Nothing THEN Panicked(l)
          ELSE IF tunnel.tcp = "TcpOverUdp"
               THEN Step(FALSE, Locals(FALSE, Nothing, l.udp_slot, Append(l.conns, "datagram")),
                         Some(HopCall(h, "spawn_tcp_with_outbound", l.tcp_slot[1],
                                      Nothing, Some(Inner(n)), Nothing)))
               ELSE Step(FALSE, Locals(TRUE, Some(Outer(n)), l.udp_slot, Append(l.conns, "byte")),
                         Some(HopCall(h, "spawn_tcp_with_outbound", l.tcp_slot[1],
                                      Some(Inner(n)), Nothing, Nothing)))
     ELSE IF l.udp_slot = Nothing THEN Panicked(l)
          ELSE IF tunnel.udp = "UdpOverTcp"
               THEN Step(FALSE, Locals(TRUE, Some(Outer(n)), Nothing, Append(l.conns, "byte")),
                         Some(HopCall(h, "spawn_udp_with_outbound", l.udp_slot[1],
                                      Some(Inner(n)), Nothing, Some(nf))))
               ELSE Step(FALSE, Locals(FALSE, l.tcp_slot, Some(Outer(n)), Append(l.conns, "datagram")),
                         Some(HopCall(h, "spawn_udp_with_outbound", l.udp_slot[1],
                                      Nothing, Some(Inner(n)), Some(nf))))

\* one iteration of `for tunnel in first_part`, up to the call on the hop:
\* the locals after it and the call made (take().unwrap() of an empty
\* container panics)
HopStep(tunnel, h, l, nf) ==
  LET n == Len(l.conns) + 1
  IN IF l.use_tcp
     THEN IF l.tcp_slot = Nothing THEN Panicked(l)
          ELSE IF tunnel.tcp = "TcpOverUdp"
               THEN Step(FALSE, Locals(FALSE, Nothing, Some(Outer(n)), Append(l.conns, "datagram")),
                         Some(HopCall(h, "spawn_tcp_with_outbound", l.tcp_slot[1],
                                      Nothing, Some(Inner(n)), Nothing)))
               ELSE Step(FALSE, Locals(TRUE, Some(Outer(n)), l.udp_slot, Append(l.conns, "byte")),
                         Some(HopCall(h, "spawn_tcp_with_outbound", l.tcp_slot[1],
                                      Some(Inner(n)), Nothing, Nothing)))
     ELSE IF l.udp_slot = Nothing THEN Panicked(l)
          ELSE IF tunnel.udp = "UdpOverTcp"
               THEN Step(FALSE, Locals(TRUE, Some(Outer(n)), Nothing, Append(l.conns, "byte")),
                         Some(HopCall(h, "spawn_udp_with_outbound", l.udp_slot[1],
                                      Some(Inner(n)), Nothing, Some(nf))))
               ELSE Step(FALSE, Locals(FALSE, l.tcp_slot, Some(Outer(n)), Append(l.conns, "datagram")),
                         Some(HopCall(h, "spawn_udp_with_outbound", l.udp_slot[1],
                                      Nothing, Some(Inner(n)), Some(nf))))

\* `connect last one`: the call on the terminal hop
LastStep(h, l) ==
  IF l.use_tcp
  THEN IF l.tcp_slot = Nothing THEN Panicked(l)
       ELSE Step(FALSE, Locals(l.use_tcp, Nothing, l.udp_slot, l.conns),
                 Some(HopCall(h, "spawn_tcp", l.tcp_slot[1], Nothing, Nothing, Nothing)))
  ELSE IF l.udp_slot = Nothing THEN Panicked(l)
       ELSE Step(FALSE, Locals(l.use_tcp, l.tcp_slot, Nothing, l.conns),
                 Some(HopCall(h, "spawn_udp", l.udp_slot[1], Nothing, Nothing, Some(TRUE))))

CurLocals == Locals(use_tcp, tcp_slot, udp_slot, conns)

SetLocals(l) ==
  /\ use_tcp' = l.use_tcp
  /\ tcp_slot' = l.tcp_slot
  /\ udp_slot' = l.udp_slot
  /\ conns' = l.conns

DispatchIdle ==
  /\ built = NotBuilt
  /\ sel = [g \in GroupNames |-> GroupMembers[g][1]]
  /\ dns = [d \in Domains |-> "ip1"]
  /\ info = ConnInfo(Raw("ip1"), None, "Tcp", None)
  /\ last = NoCall
  /\ rep = NoRep

ChainInit == DispatchIdle /\ ChainIdle /\ BuilderIdle

\* Outbound::spawn_tcp for ChainOutbound: spawn(true, Some(inbound), None, abort)
SpawnTcp ==
  /\ cpc = "idle"
  /\ \E c \in Chains : chain' = c
  /\ carrier0' = "Tcp"
  /\ SetLocals(Locals(TRUE, Some(Inbound0), Nothing, <<>>))
  /\ cpc' = "loop" /\ cidx' = 1 /\ not_first' = FALSE
  /\ UNCHANGED <<calls, cresult, term>>
  /\ UNCHANGED <<dvars, xvars>>

\* Outbound::spawn_udp for ChainOutbound: spawn(false, None, Some(inbound), abort)
SpawnUdp ==
  /\ cpc = "idle"
  /\ \E c \in Chains : chain' = c
  /\ carrier0' = "Udp"
  /\ SetLocals(Locals(FALSE, Nothing, Some(Inbound0), <<>>))
  /\ cpc' = "loop" /\ cidx' = 1 /\ not_first' = FALSE
  /\ UNCHANGED <<calls, cresult, term>>
  /\ UNCHANGED <<dvars, xvars>>

\* the call awaited without `?`: an Err is recorded and the loop goes on
ConnectHop_ignoreerr ==
  /\ cpc = "loop"
  /\ cidx < Len(chain)
  /\ LET r == HopStep(chain[cidx], cidx, CurLocals, not_first)
     IN /\ SetLocals(r.locals)
        /\ calls' = calls \o r.call
        /\ IF r.panic
           THEN /\ cresult' = "Panic" /\ cpc' = "done"
                /\ UNCHANGED <<cidx, not_first>>
           ELSE \E ok \in BOOLEAN :
                  /\ cidx' = cidx + 1 /\ not_first' = TRUE
                  /\ cresult' = IF ok THEN cresult ELSE "Err"
                  /\ UNCHANGED cpc
  /\ UNCHANGED <<chain, carrier0, term>>
  /\ UNCHANGED <<dvars, xvars>>

\* one non-terminal hop: the call is awaited; Err ends the task (`.await?`)
ConnectHop ==
  /\ cpc = "loop"
  /\ cidx < Len(chain)
  /\ LET r == HopStep(chain[cidx], cidx, CurLocals, not_first)
     IN /\ SetLocals(r.locals)
        /\ calls' = calls \o r.call
        /\ IF r.panic
           THEN /\ cresult' = "Panic" /\ cpc' = "done"
                /\ UNCHANGED <<cidx, not_first>>
           ELSE \E ok \in BOOLEAN :
                  IF ok
                  THEN /\ cidx' = cidx + 1 /\ not_first' = TRUE
                       /\ UNCHANGED <<cresult, cpc>>
                  ELSE /\ cresult' = "Err" /\ cpc' = "done"
                       /\ UNCHANGED <<cidx, not_first>>
  /\ UNCHANGED <<chain, carrier0, term>>
  /\ UNCHANGED <<dvars, xvars>>

\* the terminal hop: its task is spawned, the handle dropped, and the chain's
\* task returns Ok(())
ConnectLast ==
  /\ cpc = "loop"
  /\ cidx = Len(chain)
  /\ LET r == LastStep(cidx, CurLocals)
     IN /\ SetLocals(r.locals)
        /\ calls' = calls \o r.call
        /\ IF r.panic
           THEN cresult' = "Panic" /\ UNCHANGED term
           ELSE cresult' = "Ok" /\ term' = "running"
  /\ cpc' = "done"
  /\ UNCHANGED <<chain, carrier0, cidx, not_first>>
  /\ UNCHANGED <<dvars, xvars>>

\* the terminal hop's task ends, with or without an error
TerminalEnds ==
  /\ term = "running"
  /\ \E outcome \in {"ok", "err"} : term' = outcome
  /\ UNCHANGED <<chain, cpc, cidx, use_tcp, tcp_slot, udp_slot, not_first, conns, carrier0,
                 calls, cresult>>
  /\ UNCHANGED <<dvars, xvars>>

ChainNext ==
  \/ SpawnTcp
  \/ SpawnUdp
  \/ ConnectHop
  \/ ConnectLast
  \/ TerminalEnds

ChainSpec == ChainInit /\ [][ChainNext]_vars

----------------------------------------------------------------------------
(* The rule builder applied to every rule list *)

RulesCfg(rules) == [kind |-> "rules", rules |-> rules]
RulesBld(r, d) == [kind |-> "rules", res |-> r, dispatching |-> d]

RulesInit == DispatchIdle /\ ChainIdle /\ BuilderIdle

\* build_rules on rule_local, and the build that calls it
BuildRules ==
  /\ cfg = NoCfg
  /\ \E rules \in RuleLists :
       /\ cfg' = RulesCfg(rules)
       /\ bld' = RulesBld(build_rules(rules), build(rules, NoList))
  /\ UNCHANGED <<dvars, cvars, mrun, rvars, tvars, svars>>

RulesNext == BuildRules

RulesSpec == RulesInit /\ [][RulesNext]_vars

----------------------------------------------------------------------------
(* DispatchingBuilder::new: proxies, proxy groups and chains *)

\* RawProxyGroupCfg: a genuine group (proxies, providers) or a chain; every
\* body below passes roughly_validate except InvalidBody
GroupBody(proxies, providers) ==
  [kind |-> "group", proxies |-> proxies, providers |-> providers, interface |-> None]
ChainBody(chains) ==
  [kind |-> "chain", proxies |-> chains, providers |-> <<>>, interface |-> None]
InvalidBody == [kind |-> "invalid", proxies |-> <<>>, providers |-> <<>>, interface |-> None]
roughly_validate(body) == body.kind # "invalid"

\* state.group_selection.get(name)
NoSelection == [some |-> FALSE, name |-> ""]
Selected(n) == [some |-> TRUE, name |-> n]

\* LoadedConfig: config.proxy_local (a map: its keys are distinct), the
\* entries of the one provider "P" of proxy_schema, config.proxy_group in
\* declaration order, state.group_selection
LoadedConfig(local, schema, groups, selection) ==
  [proxy_local |-> local, proxy_schema |-> schema, proxy_group |-> groups,
   group_selection |-> selection]

Declared(c) == {c.proxy_group[k].name : k \in 1..Len(c.proxy_group)}
BodyOf(c, n) == (CHOOSE g \in {c.proxy_group[k] : k \in 1..Len(c.proxy_group)} : g.name = n).body

\* the builder: self.proxies, self.groups, and queued_groups of new
Builder(proxies, groups) ==
  [status |-> "ok", err |-> None, proxies |-> proxies, groups |-> groups, queued |-> {}]
Fail(b, e) == [b EXCEPT !.status = "err", !.err = e]
\* Option::unwrap on None
Unwrapped(b) == [b EXCEPT !.status = "panic"]

ImplOf(kind) == [impl |-> kind, contents |-> <<>>]
ChainImpl(contents) == [impl |-> "Chain", contents |-> contents]
ProxyGroupOf(members, selection, interface) ==
  [members |-> members, selection |-> selection, interface |-> interface]

\* DispatchingBuilder::empty
empty == Builder(("DIRECT" :> ImplOf("Direct")) @@ ("REJECT" :> ImplOf("Reject")), <<>>)

Taken(b) == DOMAIN b.proxies \cup DOMAIN b.groups

RECURSIVE parse_proxies(_, _, _)
\* parse_proxies over the names of an iterator, from position k on
parse_proxies(b, names, k) ==
  IF k > Len(names) THEN b
  ELSE IF names[k] \in Taken(b)
       THEN Fail(b, "Duplicate proxy name")
       ELSE parse_proxies([b EXCEPT !.proxies = (names[k] :> ImplOf("Http")) @@ @], names, k + 1)

RECURSIVE SetToSeq(_)
SetToSeq(S) == IF S = {} THEN <<>> ELSE LET x == CHOOSE x \in S : TRUE IN <<x>> \o SetToSeq(S \ {x})

Reverse(q) == [k \in 1..Len(q) |-> q[Len(q) + 1 - k]]

\* state.group_selection.get(name).unwrap_or(&String::new())
wanted(c) == IF c.group_selection.some THEN c.group_selection.name ELSE ""

OneProxy(b, proxy) == [b |-> b, proxy |-> proxy]
MembersOf(b, arr, selection) == [b |-> b, arr |-> arr, selection |-> selection]

RECURSIVE parse_group(_, _, _, _)
RECURSIVE parse_one_proxy(_, _, _, _)
RECURSIVE ChainContents(_, _, _, _, _, _)
RECURSIVE ListedProxies(_, _, _, _, _, _, _)
RECURSIVE ProvidedProxies(_, _, _, _, _, _, _)

\* the member list of one provider option: RawProxyProviderOption::Name takes
\* every entry of the provider
valid_proxies(c, option) == c.proxy_schema

\* the `for p in chains.iter().rev()` loop of parse_group
ChainContents(b, name, c, rev, k, contents) ==
  IF k > Len(rev) THEN MembersOf(b, contents, Nothing)
  ELSE LET r == parse_one_proxy(b, rev[k], name, c)
       IN IF r.b.status # "ok" THEN MembersOf(r.b, contents, Nothing)
          ELSE ChainContents(r.b, name, c, rev, k + 1, Append(contents, r.proxy))

\* the `for p in proxy_group.proxies` loop of parse_group
ListedProxies(b, name, c, list, k, arr, selection) ==
  IF k > Len(list) THEN MembersOf(b, arr, selection)
  ELSE LET r == parse_one_proxy(b, list[k], name, c)
       IN IF r.b.status # "ok" THEN MembersOf(r.b, arr, selection)
          ELSE ListedProxies(r.b, name, c, list, k + 1, Append(arr, r.proxy),
                             IF list[k] = wanted(c) THEN Some(r.proxy) ELSE selection)

\* the `for p in valid_proxies` loop of parse_group
ProvidedProxies(b, name, c, list, k, arr, selection) ==
  IF k > Len(list) THEN MembersOf(b, arr, selection)
  ELSE IF list[k] \notin DOMAIN b.proxies
       THEN MembersOf(Fail(b, "No proxy in group"), arr, selection)
       ELSE ProvidedProxies(b, name, c, list, k + 1, Append(arr, Single(list[k])),
                            IF list[k] = wanted(c) THEN Some(Single(list[k])) ELSE selection)

RECURSIVE UsedProviders(_, _, _, _, _, _, _)
\* the `for p in proxy_group.providers` loop of parse_group
UsedProviders(b, name, c, options, k, arr, selection) ==
  IF k > Len(options) THEN MembersOf(b, arr, selection)
  ELSE LET r == ProvidedProxies(b, name, c, valid_proxies(c, options[k]), 1, arr, selection)
       IN IF r.b.status # "ok" THEN r
          ELSE UsedProviders(r.b, name, c, options, k + 1, r.arr, r.selection)

\* a name already in progress or processed, met without an error
OnTaken_skip(b, dup_as_error) == b

\* parse_group on a name that is a proxy, a group or in queued_groups
OnTaken(b, dup_as_error) ==
  IF dup_as_error THEN Fail(b, "Duplicate group name") ELSE b

\* selection.unwrap_or(first)
selection_or_first(arr, selection) ==
  IF selection = Nothing THEN arr[1] ELSE selection[1]

parse_group(b, name, c, dup_as_error) ==
  IF name \in Taken(b) \cup b.queued
  THEN OnTaken(b, dup_as_error)
  ELSE LET body == BodyOf(c, name)
       IN IF ~roughly_validate(body) THEN Fail(b, "Invalid group")
          ELSE IF body.kind = "chain"
          THEN LET r == ChainContents(b, name, c, Reverse(body.proxies), 1, <<>>)
               IN IF r.b.status # "ok" THEN r.b
                  ELSE [r.b EXCEPT !.proxies = (name :> ChainImpl(r.arr)) @@ @]
          ELSE LET l == ListedProxies(b, name, c, body.proxies, 1, <<>>, Nothing)
                   r == IF l.b.status # "ok" THEN l
                        ELSE UsedProviders(l.b, name, c, body.providers, 1, l.arr, l.selection)
               IN IF r.b.status # "ok" THEN r.b
                  ELSE IF r.arr = <<>> THEN r.b
                  ELSE [r.b EXCEPT !.groups =
                          (name :> ProxyGroupOf(r.arr, selection_or_first(r.arr, r.selection),
                                                body.interface)) @@ @]

\* a parse_one_proxy that queues the member in place of the referring group
parse_one_proxy_queue_member(b, p, name, c) ==
  IF p \in DOMAIN b.proxies THEN OneProxy(b, Single(p))
  ELSE IF p \in DOMAIN b.groups THEN OneProxy(b, Group(p))
  ELSE LET q == [b EXCEPT !.queued = @ \cup {p}]
       IN IF p \in Declared(c)
          THEN LET r == parse_group(q, p, c, TRUE)
               IN IF r.status # "ok" THEN OneProxy(r, NoProxy)
                  ELSE LET u == [r EXCEPT !.queued = @ \ {p}]
                       IN IF p \in DOMAIN u.groups THEN OneProxy(u, Group(p))
                          ELSE IF p \in DOMAIN u.proxies THEN OneProxy(u, Single(p))
                          ELSE OneProxy(Unwrapped(u), NoProxy)
          ELSE OneProxy(Fail(q, "No proxy in group"), NoProxy)

parse_one_proxy(b, p, name, c) ==
  IF p \in DOMAIN b.proxies THEN OneProxy(b, Single(p))
  ELSE IF p \in DOMAIN b.groups THEN OneProxy(b, Group(p))
  ELSE LET q == [b EXCEPT !.queued = @ \cup {name}]
       IN IF p \in Declared(c)
          THEN LET r == parse_group(q, p, c, TRUE)
               IN IF r.status # "ok" THEN OneProxy(r, NoProxy)
                  ELSE LET u == [r EXCEPT !.queued = @ \ {name}]
                       IN IF p \in DOMAIN u.groups THEN OneProxy(u, Group(p))
                          ELSE IF p \in DOMAIN u.proxies THEN OneProxy(u, Single(p))
                          ELSE OneProxy(Unwrapped(u), NoProxy)
          ELSE OneProxy(Fail(q, "No proxy in group"), NoProxy)

RECURSIVE GroupsFrom(_, _, _)
\* the `for (name, group) in &config.proxy_group` loop of new
GroupsFrom(b, c, k) ==
  IF k > Len(c.proxy_group) THEN b
  ELSE LET r == parse_group(b, c.proxy_group[k].name, c, FALSE)
       IN IF r.status # "ok" THEN r ELSE GroupsFrom(r, c, k + 1)

\* DispatchingBuilder::new
new(c) ==
  LET local == parse_proxies(empty, SetToSeq(c.proxy_local), 1)
      provided == IF local.status # "ok" THEN local
                  ELSE parse_proxies(local, c.proxy_schema, 1)
  IN IF provided.status # "ok" THEN provided ELSE GroupsFrom(provided, c, 1)

\* the groups of the Dispatching that build makes of the builder: those of
\* group_order that the builder holds
BuiltGroups(c, b) == {n \in Declared(c) : n \in DOMAIN b.groups}

\* Inputs of DispatchingBuilder::new
GroupKeys == {"A", "B", "C"}
Bodies ==
  { GroupBody(<<"H">>, <<>>), GroupBody(<<"DIRECT", "H">>, <<>>), GroupBody(<<"H", "">>, <<>>),
    GroupBody(<<"A">>, <<>>), GroupBody(<<"H", "B">>, <<>>), GroupBody(<<"C">>, <<>>),
    GroupBody(<<"B", "C">>, <<>>),
    GroupBody(<<>>, <<"P">>),
    ChainBody(<<"H", "DIRECT">>), ChainBody(<<"B">>), ChainBody(<<"A", "H">>),
    InvalidBody }
GroupDecl(name, body) == [name |-> name, body |-> body]
GroupDecls == {GroupDecl(n, b) : n \in GroupKeys, b \in Bodies}
\* proxy_group is a map: its keys are distinct
ProxyGroups ==
  {g \in SeqsUpTo(GroupDecls, Cardinality(GroupKeys)) :
     \A j, k \in 1..Len(g) : j # k => g[j].name # g[k].name}
\* (proxy_local, entries of provider P, group_selection)
Environments ==
  { <<{"H"}, <<>>, NoSelection>>,
    <<{"H"}, <<>>, Selected("H")>>,
    <<{"H"}, <<>>, Selected("Z")>>,
    <<{"H"}, <<"S">>, Selected("S")>>,
    <<{"H"}, <<"S", "H">>, NoSelection>>,
    <<{"H", "DIRECT"}, <<>>, NoSelection>>,
    <<{"H", "A"}, <<>>, NoSelection>>,
    <<{"H", ""}, <<>>, NoSelection>> }
LoadedConfigs == {LoadedConfig(e[1], e[2], g, e[3]) : e \in Environments, g \in ProxyGroups}

GroupCfg(c) == [kind |-> "groups", c |-> c]

GroupInit == DispatchIdle /\ ChainIdle /\ BuilderIdle

\* DispatchingBuilder::new on a loaded configuration
New ==
  /\ cfg = NoCfg
  /\ \E c \in LoadedConfigs :
       /\ cfg' = GroupCfg(c)
       /\ bld' = new(c)
  /\ UNCHANGED <<dvars, cvars, mrun, rvars, tvars, svars>>

GroupNext == New

GroupSpec == GroupInit /\ [][GroupNext]_vars

----------------------------------------------------------------------------
(* The overlay: update_temporary_list beside a running matches *)

UpdateResult(ok, err, d) == [ok |-> ok, err |-> err, d |-> d]

\* a list that does not compile empties the overlay
update_temporary_list_clear(d, list) ==
  LET r == build_temporary_list(list)
  IN IF r.ok
     THEN UpdateResult(TRUE, None, [d EXCEPT !.temporary_list = r.rules])
     ELSE UpdateResult(FALSE, r.err, [d EXCEPT !.temporary_list = <<>>])

\* Dispatching::update_temporary_list: `?` returns before the store
update_temporary_list(d, list) ==
  LET r == build_temporary_list(list)
  IN IF r.ok
     THEN UpdateResult(TRUE, None, [d EXCEPT !.temporary_list = r.rules])
     ELSE UpdateResult(FALSE, r.err, d)

UpdateCfg(list) == [kind |-> "update", list |-> list]
UpdateBld(r, before) == [kind |-> "update", ok |-> r.ok, err |-> r.err, before |-> before]

\* the running call: the list it loaded, the next entry, the ConnInfo it
\* started from, the overlays installed since, the last update before it
Run(pc, snap, pos, before, seen, since) ==
  [pc |-> pc, snap |-> snap, pos |-> pos, before |-> before, seen |-> seen, since |-> since]

\* the list the evaluation reads again from the swappable cell at each entry
OverlayRead_reload(run, d) == d.temporary_list

\* the list the evaluation reads: what temporary_list.load() returned
OverlayRead(run, d) == run.snap

\* Inputs
OverlayRuleLocals == { <<SimpleRule(PredProcess, "REJECT"), SimpleFallback("H")>> }
OverlayConnInfos == {ConnInfo(d, None, "Tcp", None) : d \in Dsts}
OverlayLines ==
  { <<>>,
    <<SimpleRule(PredDomain, "H"), SimpleRule(PredIp, "DIRECT")>>,
    <<SimpleRule(PredIp, "REJECT"), SimpleRule(PredDomain, "H")>>,
    <<LocalResolveLine, SimpleRule(PredIp, "DIRECT")>>,
    <<SimpleBad>>,
    <<SimpleRule(PredIp, "DIRECT"), SimpleFallback("H")>> }

OverlayInit ==
  /\ built \in {build(rl, NoList) : rl \in OverlayRuleLocals}
  /\ sel = [g \in GroupNames |-> GroupMembers[g][1]]
  /\ dns = [d \in Domains |-> "ip1"]
  /\ info = ConnInfo(Raw("ip1"), None, "Tcp", None)
  /\ last = NoCall
  /\ rep = NoRep
  /\ ChainIdle
  /\ BuilderIdle

\* update_temporary_list, at any moment of a running matches
UpdateOverlay ==
  \E list \in OverlayLines :
    LET r == update_temporary_list(built, list)
    IN /\ built' = r.d
       /\ cfg' = UpdateCfg(list)
       /\ bld' = UpdateBld(r, built.temporary_list)
       /\ mrun' = IF mrun.pc = "overlay"
                  THEN [mrun EXCEPT !.seen = @ \cup {r.d.temporary_list}]
                  ELSE mrun
       /\ UNCHANGED <<sel, dns, info, last, rep>>
       /\ UNCHANGED <<cvars, rvars, tvars, svars>>

\* Dispatching::matches begins: self.temporary_list.load()
MatchLoad ==
  /\ mrun.pc # "overlay"
  /\ \E i \in OverlayConnInfos :
       /\ info' = i
       /\ mrun' = Run("overlay", built.temporary_list, 1, i, {built.temporary_list},
                      <<cfg, bld>>)
  /\ last' = NoCall
  /\ UNCHANGED <<built, sel, dns, rep, cfg, bld>>
  /\ UNCHANGED <<cvars, rvars, tvars, svars>>

\* TemporaryList::matches evaluates its next entry
MatchOverlay ==
  /\ mrun.pc = "overlay"
  /\ mrun.pos <= Len(OverlayRead(mrun, built))
  /\ LET r == TemporaryList_matches(<<OverlayRead(mrun, built)[mrun.pos]>>, info, Env(sel, dns))
     IN /\ info' = r.info
        /\ IF r.dec # NoMatch
           THEN /\ last' = Call(mrun.before, r)
                /\ mrun' = [mrun EXCEPT !.pc = "done"]
           ELSE /\ last' = last
                /\ mrun' = [mrun EXCEPT !.pos = @ + 1]
  /\ UNCHANGED <<built, sel, dns, rep, cfg, bld>>
  /\ UNCHANGED <<cvars, rvars, tvars, svars>>

\* the overlay gave no match: self.snippet.matches
MatchMain ==
  /\ mrun.pc = "overlay"
  /\ mrun.pos > Len(OverlayRead(mrun, built))
  /\ LET r == DispatchingSnippet_matches(built.snippet, info, Env(sel, dns), "main", <<>>)
     IN /\ info' = r.info
        /\ last' = Call(mrun.before, r)
        /\ mrun' = [mrun EXCEPT !.pc = "done"]
  /\ UNCHANGED <<built, sel, dns, rep, cfg, bld>>
  /\ UNCHANGED <<cvars, rvars, tvars, svars>>

OverlayNext ==
  \/ UpdateOverlay
  \/ MatchLoad
  \/ MatchOverlay
  \/ MatchMain

OverlaySpec == OverlayInit /\ [][OverlayNext]_vars

----------------------------------------------------------------------------
(* The reload loop of main.rs: the select! loop and reload() *)

\* reload(), main.rs 404-445: its fallible steps in program order
ReloadSteps ==
  <<"load_config", "mapping_rewrite", "UrlModManager", "HeaderModManager",
    "new_bootstrap_resolver", "parse_dns_config", "build", "build_filter",
    "replace_resolvers">>

\* main.rs 414-425: without a rewrite section the three rewrite steps are skipped
StepAfter(step, rewrite) ==
  IF ReloadSteps[step] = "load_config" /\ ~rewrite THEN step + 4 ELSE step + 1

\* a variant of AfterStep that publishes the Dispatching as soon as it is built
AfterStep_publish(l, step, gen) ==
  CASE ReloadSteps[step] = "build" -> [l EXCEPT !.dispatching = gen, !.api_dispatching = gen]
    [] ReloadSteps[step] = "replace_resolvers" -> [l EXCEPT !.resolvers = gen]
    [] OTHER -> l

\* what a successful step of reload() leaves in the running process: every
\* step builds a local value, only dns.replace_resolvers (443) touches `dns`
AfterStep(l, step, gen) ==
  IF ReloadSteps[step] = "replace_resolvers" THEN [l EXCEPT !.resolvers = gen] ELSE l

\* what a failing step leaves: nothing for the builders; replace_resolvers
\* may have replaced the resolvers before it gave up
AfterFailure(l, step, gen) ==
  IF ReloadSteps[step] = "replace_resolvers" THEN {l, [l EXCEPT !.resolvers = gen]} ELSE {l}

\* main.rs 380-384: the Ok arm, one replacement after the other
ApplySteps == <<"api_dispatching", "dispatching", "eavesdrop_filter", "modifier">>
Replace(l, what, gen) == [l EXCEPT ![what] = gen]

\* main.rs 375-378: a restart request arrives and reload() is called
Restart ==
  /\ rpc.pc = "select"
  /\ rpc.gen < MaxReloads
  /\ rpc' = Loop("reload", rpc.gen + 1, 1, FALSE, live, "none")
  /\ UNCHANGED live
  /\ UNCHANGED <<dvars, cvars, cfg, bld, mrun, tvars, svars>>

\* one step of reload(): `?` returns the error, otherwise the next step runs
ReloadStep ==
  /\ rpc.pc = "reload"
  /\ \E ok \in BOOLEAN, rewrite \in BOOLEAN :
       /\ ReloadSteps[rpc.step] # "load_config" => rewrite = rpc.rewrite
       /\ IF ok
          THEN /\ live' = AfterStep(live, rpc.step, rpc.gen)
               /\ rpc' = IF rpc.step = Len(ReloadSteps)
                         THEN [rpc EXCEPT !.pc = "apply", !.step = 1, !.rewrite = rewrite]
                         ELSE [rpc EXCEPT !.step = StepAfter(rpc.step, rewrite), !.rewrite = rewrite]
          ELSE /\ live' \in AfterFailure(live, rpc.step, rpc.gen)
               /\ rpc' = [rpc EXCEPT !.pc = "err", !.rewrite = rewrite]
  /\ UNCHANGED <<dvars, cvars, cfg, bld, mrun, tvars, svars>>

\* main.rs 379-386: the Ok arm installs what reload() returned
ReloadOk ==
  /\ rpc.pc = "apply"
  /\ live' = Replace(live, ApplySteps[rpc.step], rpc.gen)
  /\ rpc' = IF rpc.step = Len(ApplySteps)
            THEN [rpc EXCEPT !.pc = "select", !.outcome = "ok"]
            ELSE [rpc EXCEPT !.step = rpc.step + 1]
  /\ UNCHANGED <<dvars, cvars, cfg, bld, mrun, tvars, svars>>

\* main.rs 387-389: the Err arm logs a warning and the loop goes on
ReloadErr ==
  /\ rpc.pc = "err"
  /\ rpc' = [rpc EXCEPT !.pc = "select", !.outcome = "err"]
  /\ UNCHANGED live
  /\ UNCHANGED <<dvars, cvars, cfg, bld, mrun, tvars, svars>>

\* main.rs 374, 391-393: ctrl-c, or the restart channel is closed
Shutdown ==
  /\ rpc.pc = "select"
  /\ rpc' = [rpc EXCEPT !.pc = "return", !.outcome = "stopped"]
  /\ UNCHANGED live
  /\ UNCHANGED <<dvars, cvars, cfg, bld, mrun, tvars, svars>>

ReloadInit == DispatchIdle /\ ChainIdle /\ BuilderIdle

ReloadNext ==
  \/ Restart
  \/ ReloadStep
  \/ ReloadOk
  \/ ReloadErr
  \/ Shutdown

ReloadSpec == ReloadInit /\ [][ReloadNext]_vars

----------------------------------------------------------------------------
(* The TCP task of the userspace stack: TcpConnTask, smol.rs *)

\* the bytes of the flow are numbered in the order the application hands them over
Bytes(from, n) == [k \in 1..n |-> from + k]

RECURSIVE Flatten(_)
Flatten(bufs) == IF bufs = <<>> THEN <<>> ELSE Head(bufs) \o Flatten(Tail(bufs))

\* smoltcp: can_send() needs a state in which sending is allowed
MaySend(s) == s.state \in {"Established", "CloseWait"}

\* what send_slice may answer: Err, or Ok(sent)
SendOutcomes == {o \in [ok : BOOLEAN, sent : 0..MaxBuf] : ~o.ok => o.sent = 0}

\* socket.send_slice(data): the socket takes the first out.sent bytes, or fails
send_slice(s, data, out) ==
  IF ~out.ok THEN [ok |-> FALSE, sent |-> 0, sock |-> s]
  ELSE [ok |-> TRUE, sent |-> out.sent,
        sock |-> IF out.sent = 0 THEN s ELSE [s EXCEPT !.tx = Append(@, SubSeq(data, 1, out.sent))]]

\* a variant of carry_over that restarts the offset at the bytes of the last send
carry_over_restart(buf, start, sent) ==
  IF start + sent < Len(buf) THEN Some(<<buf, sent>>) ELSE Nothing

\* smol.rs 71-75 and 86-90 (start = 0): what is kept after `sent` bytes went out
carry_over(buf, start, sent) ==
  IF start + sent < Len(buf) THEN Some(<<buf, sent + start>>) ELSE Nothing

TryResult(ok, t, s) == [ok |-> ok, task |-> t, sock |-> s]

\* smol.rs 100-102
close_on_close_wait(s) == IF s.state = "CloseWait" THEN [s EXCEPT !.state = "LastAck"] ELSE s

\* smol.rs 63-104: TcpConnTask::try_send
try_send(t, s, can_send, out) ==
  IF ~can_send THEN TryResult(TRUE, t, close_on_close_wait(s))
  ELSE IF t.remain_to_send # Nothing
  THEN LET buf == t.remain_to_send[1][1]
           start == t.remain_to_send[1][2]
           r == send_slice(s, SubSeq(buf, start + 1, Len(buf)), out)
       IN IF r.ok
          THEN TryResult(TRUE, [t EXCEPT !.remain_to_send = carry_over(buf, start, r.sent)],
                         close_on_close_wait(r.sock))
          ELSE TryResult(FALSE, [t EXCEPT !.remain_to_send = Nothing], s)
  ELSE IF t.rx # <<>>
  THEN LET buf == Head(t.rx)
           r == send_slice(s, buf, out)
           fetched == [t EXCEPT !.rx = Tail(@)]
       IN IF r.ok
          THEN TryResult(TRUE, [fetched EXCEPT !.remain_to_send = carry_over(buf, 0, r.sent)],
                         close_on_close_wait(r.sock))
          ELSE TryResult(FALSE, fetched, s)
  ELSE IF t.disconnected THEN TryResult(FALSE, t, s)
  ELSE TryResult(TRUE, t, close_on_close_wait(s))

\* what try_send is about to hand to send_slice (empty when it sends nothing)
Offered(t) ==
  IF t.remain_to_send # Nothing
  THEN SubSeq(t.remain_to_send[1][1], t.remain_to_send[1][2] + 1, Len(t.remain_to_send[1][1]))
  ELSE IF t.rx # <<>> THEN Head(t.rx) ELSE <<>>

\* the application sends a buffer into the Connector
AppSend ==
  /\ app.bufs < MaxBufs
  /\ ~task.disconnected
  /\ Len(app.back) < ConnectorCapacity
  /\ \E n \in 0..MaxBuf :
       /\ app.bytes + n <= MaxBytes
       /\ app' = [back |-> Append(app.back, Bytes(app.bytes, n)),
                  bytes |-> app.bytes + n, bufs |-> app.bufs + 1]
  /\ UNCHANGED <<task, sock>>
  /\ UNCHANGED <<dvars, cvars, cfg, bld, mrun, rvars, svars>>

\* smol.rs 47-52: the task spawned by new() moves one buffer into the flume channel
Forward ==
  /\ app.back # <<>>
  /\ task' = [task EXCEPT !.rx = Append(@, Head(app.back))]
  /\ app' = [app EXCEPT !.back = Tail(@)]
  /\ UNCHANGED sock
  /\ UNCHANGED <<dvars, cvars, cfg, bld, mrun, rvars, svars>>

\* smol.rs 48: the application dropped its end of the Connector, recv() returns
\* None once the channel is drained, the forwarding task ends and drops `tx`
Disconnect ==
  /\ app.back = <<>>
  /\ ~task.disconnected
  /\ task' = [task EXCEPT !.disconnected = TRUE]
  /\ UNCHANGED <<app, sock>>
  /\ UNCHANGED <<dvars, cvars, cfg, bld, mrun, rvars, svars>>

\* smol.rs 329-345: poll_all_tcp calls try_send; an error closes the socket and
\* cancels the flow
PollSend ==
  /\ ~task.aborted
  /\ sock.state # "Closed"
  /\ \E can_send \in BOOLEAN, out \in SendOutcomes :
       /\ can_send => MaySend(sock)
       /\ out.sent <= Len(Offered(task))
       /\ ~can_send => out = [ok |-> TRUE, sent |-> 0]
       /\ LET r == try_send(task, sock, can_send, out)
          IN IF r.ok
             THEN task' = r.task /\ sock' = r.sock
             ELSE task' = [r.task EXCEPT !.aborted = TRUE] /\ sock' = [r.sock EXCEPT !.state = "Closed"]
  /\ UNCHANGED app
  /\ UNCHANGED <<dvars, cvars, cfg, bld, mrun, rvars, svars>>

\* the peer closes its direction of the connection
PeerFin ==
  /\ sock.state = "Established"
  /\ sock' = [sock EXCEPT !.state = "CloseWait"]
  /\ UNCHANGED <<task, app>>
  /\ UNCHANGED <<dvars, cvars, cfg, bld, mrun, rvars, svars>>

TcpInit == DispatchIdle /\ ChainIdle /\ BuilderIdle

TcpNext ==
  \/ AppSend
  \/ Forward
  \/ Disconnect
  \/ PollSend
  \/ PeerFin

TcpSpec == TcpInit /\ [][TcpNext]_vars

----------------------------------------------------------------------------
(* The forwarding task, the Notify and the drive loop of a TCP task *)

\* tokio: Notify::notify_one wakes the task waiting in notified(), or stores
\* one permit when none waits
notify_one(d) ==
  IF d.loop = "asleep" THEN [d EXCEPT !.loop = "woken"] ELSE [d EXCEPT !.permit = TRUE]

\* tokio: Notify::notified().await takes the stored permit, or waits
notified(d) ==
  IF d.permit THEN [d EXCEPT !.permit = FALSE, !.loop = "poll"] ELSE [d EXCEPT !.loop = "asleep"]

Forwarded(d, t, a) == [drv |-> d, task |-> t, app |-> a]

\* a variant of forward that signals the Notify before it enqueues the buffer
forward_notify_first(d, t, a) ==
  IF d.pos = "recv"
  THEN Forwarded([notify_one(d) EXCEPT !.pos = "sent"], t, a)
  ELSE Forwarded([d EXCEPT !.pos = "recv"],
                 [t EXCEPT !.rx = Append(@, Head(a.back))], [a EXCEPT !.back = Tail(@)])

\* smol.rs 47-52: one step of the task spawned by new(): back_rx.recv() and
\* tx.send(buf) (48-49), then notify.notify_one() (50)
forward(d, t, a) ==
  IF d.pos = "recv"
  THEN Forwarded([d EXCEPT !.pos = "sent"],
                 [t EXCEPT !.rx = Append(@, Head(a.back))], [a EXCEPT !.back = Tail(@)])
  ELSE Forwarded([notify_one(d) EXCEPT !.pos = "recv"], t, a)

\* smol.rs 64-103: the has_activity try_send returns with Ok
has_activity(t, can_send, out) ==
  can_send /\ out.ok /\ (t.remain_to_send # Nothing \/ t.rx # <<>>)

DriveFrame == UNCHANGED <<dvars, cvars, cfg, bld, mrun, rvars, stack, inb, nat, main>>

ForwardStep ==
  /\ drv.pos = "recv" => app.back # <<>>
  /\ LET r == forward(drv, task, app)
     IN drv' = r.drv /\ task' = r.task /\ app' = r.app
  /\ UNCHANGED sock
  /\ DriveFrame

\* one pass of the drive loop: iface.poll lets the peer's FIN in and decides
\* whether the socket's transmit buffer has room (smol.rs 240-246), then the
\* task is polled as poll_all_tcp does (smol.rs 329-345); a pass without
\* activity is followed by notified()
DrivePass ==
  /\ drv.loop \in {"poll", "woken"}
  /\ \E fin \in BOOLEAN, window \in BOOLEAN, out \in SendOutcomes, recv \in BOOLEAN, room \in BOOLEAN :
       LET s == IF fin /\ sock.state = "Established" THEN [sock EXCEPT !.state = "CloseWait"] ELSE sock
           can_send == MaySend(s) /\ window
           polled == s.state # "Closed" /\ ~task.aborted
           r == try_send(task, s, can_send, out)
           act == polled /\ (has_activity(task, can_send, out) \/ recv)
       IN /\ out.sent <= Len(Offered(task))
          /\ ~(polled /\ can_send) => out = [ok |-> TRUE, sent |-> 0]
          /\ out.sent = 0 => room = window
          /\ ~polled => ~recv
          /\ IF ~polled THEN task' = task /\ sock' = s
             ELSE IF r.ok THEN task' = r.task /\ sock' = r.sock
             ELSE task' = [r.task EXCEPT !.aborted = TRUE] /\ sock' = [r.sock EXCEPT !.state = "Closed"]
          /\ drv' = [drv EXCEPT !.loop = IF act THEN "poll" ELSE "wait", !.window = room]
  /\ UNCHANGED app
  /\ DriveFrame

\* the drive loop awaits the Notify
DriveWait ==
  /\ drv.loop = "wait"
  /\ drv' = notified(drv)
  /\ UNCHANGED tvars
  /\ DriveFrame

DriveInit == DispatchIdle /\ ChainIdle /\ BuilderIdle

DriveNext ==
  \/ AppSend
  \/ ForwardStep
  \/ DrivePass
  \/ DriveWait

DriveSpec == DriveInit /\ [][DriveNext]_vars

----------------------------------------------------------------------------
(* The userspace stack: SmolStack, smol.rs *)

Ports == {"p1", "p2"}
Remotes == {"r1", "r2"}
TcpStates == {"SynSent", "Established", "CloseWait", "FinWait1", "LastAck", "Closed"}

Put(f, k, v) == (k :> v) @@ f
Restrict(f, S) == [k \in S |-> f[k]]

\* smol.rs 53-60 and 151-159: the tasks as new() returns them; `back` counts the
\* buffers queued in back_tx, `waited` tells that a send into it had to wait
StackTcpTask(handle, abort_handle) ==
  [rx |-> <<>>, remain_to_send |-> Nothing, disconnected |-> FALSE,
   back |-> 0, waited |-> FALSE, handle |-> handle, abort_handle |-> abort_handle]
StackUdpTask(handle, abort_handle, dest, now) ==
  [rx |-> <<>>, disconnected |-> FALSE, back |-> 0, waited |-> FALSE,
   handle |-> handle, abort_handle |-> abort_handle, dest |-> dest, last_active |-> now]

\* smol.rs 260-273: a TCP socket after connect; 300-312: a UDP socket after bind.
\* `avail` counts the segments waiting to be read, `inq` holds the source
\* endpoints of the datagrams waiting to be read
TcpSocket == [kind |-> "tcp", tx |-> <<>>, state |-> "SynSent", avail |-> 0]
UdpSocket == [kind |-> "udp", open |-> TRUE, inq |-> <<>>]

\* SocketSet::add puts the socket into the first free slot
FreeHandle(set) == CHOOSE h \in 1..(Cardinality(DOMAIN set) + 1) :
                     h \notin DOMAIN set /\ \A g \in 1..(h - 1) : g \in DOMAIN set

OpResult(res, st) == [res |-> res, st |-> st]

\* a variant of open_tcp that replaces the task of an occupied port
open_tcp_replace(st, port, connect_ok, abort_handle) ==
  IF ~connect_ok THEN OpResult("ConnectionRefused", st)
  ELSE LET handle == FreeHandle(st.socket_set)
       IN OpResult("Ok", [st EXCEPT !.socket_set = Put(@, handle, TcpSocket),
                                    !.tcp_conn = Put(@, port, StackTcpTask(handle, abort_handle))])

\* smol.rs 248-286: SmolStack::open_tcp
open_tcp(st, port, connect_ok, abort_handle) ==
  IF port \in DOMAIN st.tcp_conn THEN OpResult("AddrInUse", st)
  ELSE IF ~connect_ok THEN OpResult("ConnectionRefused", st)
  ELSE LET handle == FreeHandle(st.socket_set)
       IN OpResult("Ok", [st EXCEPT !.socket_set = Put(@, handle, TcpSocket),
                                    !.tcp_conn = Put(@, port, StackTcpTask(handle, abort_handle))])

\* smol.rs 288-327: SmolStack::open_udp
open_udp(st, port, remote_addr, bind_ok, abort_handle) ==
  IF port \in DOMAIN st.udp_conn THEN OpResult("AddrInUse", st)
  ELSE IF ~bind_ok THEN OpResult("ConnectionRefused", st)
  ELSE LET handle == FreeHandle(st.socket_set)
       IN OpResult("Ok", [st EXCEPT !.socket_set = Put(@, handle, UdpSocket),
                                    !.udp_conn = Put(@, port, StackUdpTask(handle, abort_handle, remote_addr, st.now))])

\* smoltcp: tcp::Socket::close
close(s) ==
  CASE s.state = "SynSent" -> [s EXCEPT !.state = "Closed"]
    [] s.state = "Established" -> [s EXCEPT !.state = "FinWait1"]
    [] s.state = "CloseWait" -> [s EXCEPT !.state = "LastAck"]
    [] OTHER -> s

\* mpsc::Sender::capacity and send on the back channel
capacity(t) == ConnectorCapacity - t.back
back_send(t) ==
  IF t.back < ConnectorCapacity THEN [t EXCEPT !.back = @ + 1] ELSE [t EXCEPT !.waited = TRUE]

Polled(t, s, cancel) == [task |-> t, sock |-> s, cancel |-> cancel]

\* a variant of tcp_try_recv that reads whenever the socket has data
tcp_try_recv_greedy(t, s, recv_ok) ==
  IF s.avail > 0
  THEN IF recv_ok THEN Polled(back_send(t), [s EXCEPT !.avail = @ - 1], FALSE)
       ELSE Polled(t, s, FALSE)
  ELSE Polled(t, s, FALSE)

\* smol.rs 106-118: TcpConnTask::try_recv
tcp_try_recv(t, s, recv_ok) ==
  IF s.avail > 0 /\ capacity(t) > 0
  THEN IF recv_ok THEN Polled(back_send(t), [s EXCEPT !.avail = @ - 1], FALSE)
       ELSE Polled(t, s, FALSE)
  ELSE Polled(t, s, FALSE)

\* what the environment decides for one task in one poll pass
PollInputs == [can_send : BOOLEAN, out : SendOutcomes, send_ok : BOOLEAN, recv_ok : BOOLEAN]

\* smol.rs 331-343: the body of poll_all_tcp's loop for one task
poll_tcp(t, s, in) ==
  IF s.state = "Closed" THEN Polled(t, s, FALSE)
  ELSE LET r == try_send(t, s, in.can_send, in.out)
           after == IF r.ok THEN r.sock ELSE close(r.sock)
           rr == tcp_try_recv(r.task, after, in.recv_ok)
       IN Polled(rr.task, rr.sock, ~r.ok)

\* smol.rs 162-182: UdpConnTask::try_send
udp_try_send(t, s, in, now) ==
  IF ~in.can_send THEN TryResult(TRUE, t, s)
  ELSE IF t.rx # <<>>
  THEN IF in.send_ok
       THEN TryResult(TRUE, [t EXCEPT !.rx = Tail(@), !.last_active = now], s)
       ELSE TryResult(FALSE, [t EXCEPT !.rx = Tail(@)], s)
  ELSE IF t.disconnected THEN TryResult(FALSE, t, s)
  ELSE TryResult(TRUE, t, s)

\* a variant of udp_try_recv that delivers whatever arrives
udp_try_recv_any(t, s, recv_ok, now) ==
  IF s.open /\ s.inq # <<>> /\ capacity(t) > 0
  THEN IF recv_ok
       THEN Polled([back_send(t) EXCEPT !.last_active = now], [s EXCEPT !.inq = Tail(@)], FALSE)
       ELSE Polled(t, s, FALSE)
  ELSE Polled(t, s, FALSE)

\* smol.rs 184-200: UdpConnTask::try_recv
udp_try_recv(t, s, recv_ok, now) ==
  IF s.open /\ s.inq # <<>> /\ capacity(t) > 0
  THEN IF recv_ok
       THEN IF Head(s.inq) = t.dest
            THEN Polled([back_send(t) EXCEPT !.last_active = now], [s EXCEPT !.inq = Tail(@)], FALSE)
            ELSE Polled(t, [s EXCEPT !.inq = Tail(@)], FALSE)
       ELSE Polled(t, s, FALSE)
  ELSE Polled(t, s, FALSE)

\* smol.rs 349-361: the body of poll_all_udp's loop for one task
poll_udp(t, s, in, now) ==
  IF ~s.open THEN Polled(t, s, FALSE)
  ELSE LET r == udp_try_send(t, s, in, now)
           after == IF r.ok THEN r.sock ELSE [r.sock EXCEPT !.open = FALSE]
           rr == udp_try_recv(r.task, after, in.recv_ok, now)
       IN Polled(rr.task, rr.sock, ~r.ok)

\* a variant of poll_all_tcp that tears every TCP flow down when one task fails
poll_all_tcp_teardown(st, ins) ==
  LET polled == [p \in DOMAIN st.tcp_conn |->
                   poll_tcp(st.tcp_conn[p], st.socket_set[st.tcp_conn[p].handle], ins[p])]
      failed == \E p \in DOMAIN st.tcp_conn : polled[p].cancel
      owner(h) == CHOOSE p \in DOMAIN st.tcp_conn : st.tcp_conn[p].handle = h
  IN [st EXCEPT
        !.tcp_conn = [p \in DOMAIN st.tcp_conn |-> polled[p].task],
        !.socket_set = [h \in DOMAIN st.socket_set |->
                          IF \E p \in DOMAIN st.tcp_conn : st.tcp_conn[p].handle = h
                          THEN IF failed THEN close(polled[owner(h)].sock) ELSE polled[owner(h)].sock
                          ELSE st.socket_set[h]],
        !.cancelled = @ \cup {st.tcp_conn[p].abort_handle : p \in {q \in DOMAIN st.tcp_conn : failed}}]

\* smol.rs 329-345: SmolStack::poll_all_tcp, every task of tcp_conn in one pass
poll_all_tcp(st, ins) ==
  LET polled == [p \in DOMAIN st.tcp_conn |->
                   poll_tcp(st.tcp_conn[p], st.socket_set[st.tcp_conn[p].handle], ins[p])]
  IN [st EXCEPT
        !.tcp_conn = [p \in DOMAIN st.tcp_conn |-> polled[p].task],
        !.socket_set = [h \in DOMAIN st.socket_set |->
                          IF \E p \in DOMAIN st.tcp_conn : st.tcp_conn[p].handle = h
                          THEN polled[CHOOSE p \in DOMAIN st.tcp_conn : st.tcp_conn[p].handle = h].sock
                          ELSE st.socket_set[h]],
        !.cancelled = @ \cup {st.tcp_conn[p].abort_handle : p \in {q \in DOMAIN st.tcp_conn : polled[q].cancel}}]

\* smol.rs 347-363: SmolStack::poll_all_udp
poll_all_udp(st, ins) ==
  LET polled == [p \in DOMAIN st.udp_conn |->
                   poll_udp(st.udp_conn[p], st.socket_set[st.udp_conn[p].handle], ins[p], st.now)]
  IN [st EXCEPT
        !.udp_conn = [p \in DOMAIN st.udp_conn |-> polled[p].task],
        !.socket_set = [h \in DOMAIN st.socket_set |->
                          IF \E p \in DOMAIN st.udp_conn : st.udp_conn[p].handle = h
                          THEN polled[CHOOSE p \in DOMAIN st.udp_conn : st.udp_conn[p].handle = h].sock
                          ELSE st.socket_set[h]],
        !.cancelled = @ \cup {st.udp_conn[p].abort_handle : p \in {q \in DOMAIN st.udp_conn : polled[q].cancel}}]

\* a variant of purge_closed_tcp that forgets the task and keeps the socket
purge_closed_tcp_leak(st) ==
  LET closed == {p \in DOMAIN st.tcp_conn : st.socket_set[st.tcp_conn[p].handle].state = "Closed"}
  IN [st EXCEPT
        !.tcp_conn = Restrict(@, DOMAIN @ \ closed),
        !.pending = @ \cup {st.tcp_conn[p].abort_handle : p \in closed}]

\* smol.rs 365-378: SmolStack::purge_closed_tcp
purge_closed_tcp(st) ==
  LET closed == {p \in DOMAIN st.tcp_conn : st.socket_set[st.tcp_conn[p].handle].state = "Closed"}
  IN [st EXCEPT
        !.tcp_conn = Restrict(@, DOMAIN @ \ closed),
        !.socket_set = Restrict(@, DOMAIN @ \ {st.tcp_conn[p].handle : p \in closed}),
        !.pending = @ \cup {st.tcp_conn[p].abort_handle : p \in closed}]

\* a variant of purge_timeout_udp that removes a task as soon as it has been
\* idle for udp_timeout
purge_timeout_udp_eager(st) ==
  LET idle == {p \in DOMAIN st.udp_conn : st.now - st.udp_conn[p].last_active >= UdpTimeout}
  IN [st EXCEPT
        !.udp_conn = Restrict(@, DOMAIN @ \ idle),
        !.socket_set = Restrict(@, DOMAIN @ \ {st.udp_conn[p].handle : p \in idle}),
        !.pending = @ \cup {st.udp_conn[p].abort_handle : p \in idle}]

\* smol.rs 380-391: SmolStack::purge_timeout_udp
purge_timeout_udp(st) ==
  LET idle == {p \in DOMAIN st.udp_conn : st.now - st.udp_conn[p].last_active > UdpTimeout}
  IN [st EXCEPT
        !.udp_conn = Restrict(@, DOMAIN @ \ idle),
        !.socket_set = Restrict(@, DOMAIN @ \ {st.udp_conn[p].handle : p \in idle}),
        !.pending = @ \cup {st.udp_conn[p].abort_handle : p \in idle}]

Op(op, port, res) == [op |-> op, port |-> port, res |-> res]
StackFrame == UNCHANGED <<dvars, cvars, cfg, bld, mrun, rvars, tvars, inb, nat, main, drv>>

OpenTcp ==
  /\ stack.opened < MaxOpens
  /\ \E port \in Ports, connect_ok \in BOOLEAN :
       LET r == open_tcp(stack, port, connect_ok, stack.opened + 1)
       IN stack' = [r.st EXCEPT !.opened = @ + 1, !.last = Op("open_tcp", port, r.res)]
  /\ StackFrame

OpenUdp ==
  /\ stack.opened < MaxOpens
  /\ \E port \in Ports, remote_addr \in Remotes, bind_ok \in BOOLEAN :
       LET r == open_udp(stack, port, remote_addr, bind_ok, stack.opened + 1)
       IN stack' = [r.st EXCEPT !.opened = @ + 1, !.last = Op("open_udp", port, r.res)]
  /\ StackFrame

\* what the environment may decide for one task in a pass, given its socket
Accepted(n) == {o \in SendOutcomes : o.sent <= n}
TcpPollInputs(t, s) ==
  {in \in PollInputs :
     /\ in.can_send => MaySend(s)
     /\ in.out \in (IF in.can_send THEN Accepted(Len(Offered(t))) ELSE Accepted(0) \cap {o \in SendOutcomes : o.ok})
     /\ in.send_ok
     /\ (s.avail = 0 \/ capacity(t) = 0) => in.recv_ok}
UdpPollInputs(t, s) ==
  {in \in PollInputs :
     /\ in.can_send => s.open
     /\ in.out = [ok |-> TRUE, sent |-> 0]
     /\ (~in.can_send \/ t.rx = <<>>) => in.send_ok
     /\ (s.inq = <<>> \/ capacity(t) = 0) => in.recv_ok}

\* one input per task of a map
RECURSIVE PassInputs(_, _, _, _)
PassInputs(conn, set, ports, tcp) ==
  IF ports = {} THEN {EmptyMap}
  ELSE LET p == CHOOSE q \in ports : TRUE
           own == IF tcp THEN TcpPollInputs(conn[p], set[conn[p].handle])
                  ELSE UdpPollInputs(conn[p], set[conn[p].handle])
       IN {Put(f, p, in) : f \in PassInputs(conn, set, ports \ {p}, tcp), in \in own}

PollAllTcp ==
  /\ DOMAIN stack.tcp_conn # {}
  /\ \E ins \in PassInputs(stack.tcp_conn, stack.socket_set, DOMAIN stack.tcp_conn, TRUE) :
       stack' = poll_all_tcp(stack, ins)
  /\ StackFrame

PollAllUdp ==
  /\ DOMAIN stack.udp_conn # {}
  /\ \E ins \in PassInputs(stack.udp_conn, stack.socket_set, DOMAIN stack.udp_conn, FALSE) :
       stack' = poll_all_udp(stack, ins)
  /\ StackFrame

PurgeClosedTcp ==
  /\ DOMAIN stack.tcp_conn # {}
  /\ stack' = purge_closed_tcp(stack)
  /\ StackFrame

PurgeTimeoutUdp ==
  /\ DOMAIN stack.udp_conn # {}
  /\ stack' = purge_timeout_udp(stack)
  /\ StackFrame

\* smol.rs 372 and 385: a spawned cancel task runs
CancelRun ==
  /\ \E a \in stack.pending :
       stack' = [stack EXCEPT !.pending = @ \ {a}, !.cancelled = @ \cup {a}]
  /\ StackFrame

\* the application of a flow writes a buffer (it reaches `rx` through the
\* forwarding task), drops its Connector, or reads a buffer from the back channel
TcpAppWrite ==
  /\ stack.writes < MaxWrites
  /\ \E p \in DOMAIN stack.tcp_conn :
       /\ ~stack.tcp_conn[p].disconnected
       /\ stack' = [stack EXCEPT !.tcp_conn[p].rx = Append(@, <<1>>), !.writes = @ + 1]
  /\ StackFrame

UdpAppWrite ==
  /\ stack.writes < MaxWrites
  /\ \E p \in DOMAIN stack.udp_conn :
       /\ ~stack.udp_conn[p].disconnected
       /\ stack' = [stack EXCEPT !.udp_conn[p].rx = Append(@, <<1>>), !.writes = @ + 1]
  /\ StackFrame

TcpAppDrop ==
  /\ \E p \in DOMAIN stack.tcp_conn :
       /\ ~stack.tcp_conn[p].disconnected
       /\ stack' = [stack EXCEPT !.tcp_conn[p].disconnected = TRUE]
  /\ StackFrame

UdpAppDrop ==
  /\ \E p \in DOMAIN stack.udp_conn :
       /\ ~stack.udp_conn[p].disconnected
       /\ stack' = [stack EXCEPT !.udp_conn[p].disconnected = TRUE]
  /\ StackFrame

TcpAppRead ==
  /\ \E p \in DOMAIN stack.tcp_conn :
       /\ stack.tcp_conn[p].back > 0
       /\ stack' = [stack EXCEPT !.tcp_conn[p].back = @ - 1]
  /\ StackFrame

UdpAppRead ==
  /\ \E p \in DOMAIN stack.udp_conn :
       /\ stack.udp_conn[p].back > 0
       /\ stack' = [stack EXCEPT !.udp_conn[p].back = @ - 1]
  /\ StackFrame

\* the network side, as drive_iface (smol.rs 241-247) lets it in: a TCP socket
\* changes state or receives a segment, a UDP socket receives a datagram
TcpMoves ==
  {<<"SynSent", "Established">>, <<"SynSent", "Closed">>, <<"Established", "CloseWait">>,
   <<"Established", "Closed">>, <<"CloseWait", "Closed">>, <<"FinWait1", "Closed">>,
   <<"LastAck", "Closed">>}

TcpNetwork ==
  /\ \E h \in DOMAIN stack.socket_set :
       /\ stack.socket_set[h].kind = "tcp"
       /\ \/ \E m \in TcpMoves : /\ m[1] = stack.socket_set[h].state
                                 /\ stack' = [stack EXCEPT !.socket_set[h].state = m[2]]
          \/ /\ stack.socket_set[h].state = "Established"
             /\ stack.socket_set[h].avail < MaxInq
             /\ stack' = [stack EXCEPT !.socket_set[h].avail = @ + 1]
  /\ StackFrame

UdpNetwork ==
  /\ \E h \in DOMAIN stack.socket_set :
       /\ stack.socket_set[h].kind = "udp"
       /\ stack.socket_set[h].open
       /\ Len(stack.socket_set[h].inq) < MaxInq
       /\ \E ep \in Remotes : stack' = [stack EXCEPT !.socket_set[h].inq = Append(@, ep)]
  /\ StackFrame

Tick ==
  /\ stack.now < MaxTime
  /\ stack' = [stack EXCEPT !.now = @ + 1]
  /\ StackFrame

StackInit == DispatchIdle /\ ChainIdle /\ BuilderIdle

\* opening flows of both kinds on a stack whose sockets live
OpenNext ==
  \/ OpenTcp
  \/ OpenUdp
  \/ TcpNetwork
  \/ UdpNetwork

OpenSpec == StackInit /\ [][OpenNext]_vars

\* the TCP side of the stack
TcpStackNext ==
  \/ OpenTcp
  \/ PollAllTcp
  \/ PurgeClosedTcp
  \/ CancelRun
  \/ TcpAppWrite
  \/ TcpAppDrop
  \/ TcpAppRead
  \/ TcpNetwork

TcpStackSpec == StackInit /\ [][TcpStackNext]_vars

\* the UDP side of the stack
UdpStackNext ==
  \/ OpenUdp
  \/ PollAllUdp
  \/ PurgeTimeoutUdp
  \/ CancelRun
  \/ UdpAppWrite
  \/ UdpAppDrop
  \/ UdpAppRead
  \/ UdpNetwork
  \/ Tick

UdpStackSpec == StackInit /\ [][UdpStackNext]_vars

\* the poll passes over flows of both kinds
PollNext ==
  \/ OpenTcp
  \/ OpenUdp
  \/ PollAllTcp
  \/ PollAllUdp
  \/ TcpAppWrite
  \/ UdpAppWrite
  \/ TcpAppDrop
  \/ UdpAppDrop
  \/ TcpAppRead
  \/ UdpAppRead
  \/ TcpNetwork
  \/ UdpNetwork

PollSpec == StackInit /\ [][PollNext]_vars

----------------------------------------------------------------------------
(* The buffer pool of the stack's tasks: PktBufPool as smol.rs uses it *)

\* the buffers of the pool; obtain() waits while every one of them is out
PoolSize == 3

\* smol.rs 63-104: the buffers TcpConnTask::try_send hands to
\* allocator.release: the carry-over (74) or the fetched buffer (89), once
\* sent to its end
tcp_try_send_released(t, can_send, out) ==
  IF ~can_send \/ ~out.ok THEN 0
  ELSE IF t.remain_to_send # Nothing
  THEN IF carry_over(t.remain_to_send[1][1], t.remain_to_send[1][2], out.sent) = Nothing THEN 1 ELSE 0
  ELSE IF t.rx # <<>>
  THEN IF carry_over(Head(t.rx), 0, out.sent) = Nothing THEN 1 ELSE 0
  ELSE 0

\* smol.rs 106-118: the buffers TcpConnTask::try_recv takes with
\* allocator.obtain (108); it calls release nowhere
tcp_try_recv_obtained(t, s) == IF s.avail > 0 /\ capacity(t) > 0 THEN 1 ELSE 0

\* smol.rs 162-182: the buffers UdpConnTask::try_send hands to
\* allocator.release (171)
udp_try_send_released(t, in) ==
  IF in.can_send /\ t.rx # <<>> /\ in.send_ok THEN 1 ELSE 0

\* smol.rs 184-200: the buffers UdpConnTask::try_recv takes with
\* allocator.obtain (186); it calls release nowhere
udp_try_recv_obtained(t, s, recv_ok) ==
  IF s.open /\ s.inq # <<>> /\ capacity(t) > 0 THEN 1 ELSE 0

\* smol.rs 331-343 and 349-361: what one task takes from the pool in a pass,
\* less what it gives back
pool_tcp(t, s, in) ==
  IF s.state = "Closed" THEN 0
  ELSE LET r == try_send(t, s, in.can_send, in.out)
           after == IF r.ok THEN r.sock ELSE close(r.sock)
       IN tcp_try_recv_obtained(r.task, after) - tcp_try_send_released(t, in.can_send, in.out)
pool_udp(t, s, in, now) ==
  IF ~s.open THEN 0
  ELSE LET r == udp_try_send(t, s, in, now)
           after == IF r.ok THEN r.sock ELSE [r.sock EXCEPT !.open = FALSE]
       IN udp_try_recv_obtained(r.task, after, in.recv_ok) - udp_try_send_released(t, in)

RECURSIVE SumOver(_, _)
SumOver(f, ports) ==
  IF ports = {} THEN 0
  ELSE LET p == CHOOSE q \in ports : TRUE IN f[p] + SumOver(f, ports \ {p})

\* the buffers in the queues of the tasks and in the carry-overs
InQueues(st) ==
  SumOver([p \in DOMAIN st.tcp_conn |->
             Len(st.tcp_conn[p].rx) + st.tcp_conn[p].back
             + (IF st.tcp_conn[p].remain_to_send # Nothing THEN 1 ELSE 0)], DOMAIN st.tcp_conn)
  + SumOver([p \in DOMAIN st.udp_conn |->
               Len(st.udp_conn[p].rx) + st.udp_conn[p].back], DOMAIN st.udp_conn)

PoolFrame == UNCHANGED <<dvars, cvars, cfg, bld, mrun, rvars, tvars, inb, nat, main>>

\* the application obtains a buffer and writes it to a flow
PoolAppWrite ==
  /\ stack.writes < MaxWrites
  /\ drv.outside < PoolSize
  /\ \/ \E p \in DOMAIN stack.tcp_conn :
          /\ ~stack.tcp_conn[p].disconnected
          /\ stack' = [stack EXCEPT !.tcp_conn[p].rx = Append(@, <<1>>), !.writes = @ + 1]
     \/ \E p \in DOMAIN stack.udp_conn :
          /\ ~stack.udp_conn[p].disconnected
          /\ stack' = [stack EXCEPT !.udp_conn[p].rx = Append(@, <<1>>), !.writes = @ + 1]
  /\ drv' = [drv EXCEPT !.outside = @ + 1]
  /\ PoolFrame

\* the application reads a buffer from the back channel and releases it
PoolAppRead ==
  /\ \/ \E p \in DOMAIN stack.tcp_conn :
          /\ stack.tcp_conn[p].back > 0
          /\ stack' = [stack EXCEPT !.tcp_conn[p].back = @ - 1]
     \/ \E p \in DOMAIN stack.udp_conn :
          /\ stack.udp_conn[p].back > 0
          /\ stack' = [stack EXCEPT !.udp_conn[p].back = @ - 1]
  /\ drv' = [drv EXCEPT !.outside = @ - 1]
  /\ PoolFrame

\* a pass over the TCP tasks; obtain() does not return while the pool is empty
PoolPollAllTcp ==
  /\ DOMAIN stack.tcp_conn # {}
  /\ \E ins \in PassInputs(stack.tcp_conn, stack.socket_set, DOMAIN stack.tcp_conn, TRUE) :
       LET taken == SumOver([p \in DOMAIN stack.tcp_conn |->
                               pool_tcp(stack.tcp_conn[p], stack.socket_set[stack.tcp_conn[p].handle], ins[p])],
                            DOMAIN stack.tcp_conn)
       IN /\ drv.outside + taken <= PoolSize
          /\ stack' = poll_all_tcp(stack, ins)
          /\ drv' = [drv EXCEPT !.outside = @ + taken]
  /\ PoolFrame

\* a pass over the UDP tasks
PoolPollAllUdp ==
  /\ DOMAIN stack.udp_conn # {}
  /\ \E ins \in PassInputs(stack.udp_conn, stack.socket_set, DOMAIN stack.udp_conn, FALSE) :
       LET taken == SumOver([p \in DOMAIN stack.udp_conn |->
                               pool_udp(stack.udp_conn[p], stack.socket_set[stack.udp_conn[p].handle],
                                        ins[p], stack.now)],
                            DOMAIN stack.udp_conn)
       IN /\ drv.outside + taken <= PoolSize
          /\ stack' = poll_all_udp(stack, ins)
          /\ drv' = [drv EXCEPT !.outside = @ + taken]
  /\ PoolFrame

PoolNext ==
  \/ OpenTcp
  \/ OpenUdp
  \/ PoolPollAllTcp
  \/ PoolPollAllUdp
  \/ PoolAppWrite
  \/ PoolAppRead
  \/ TcpNetwork
  \/ UdpNetwork

PoolSpec == StackInit /\ [][PoolNext]_vars

----------------------------------------------------------------------------
(* The loopback inbounds: HttpInbound and Socks5Inbound, proxy/ *)

\* http_inbound.rs 76: the header array handed to httparse
HeaderSlots == 16

\* a Proxy-Authorization header value: whether it is UTF-8, its first six
\* characters lower-cased, and what the rest decodes to from base64
\* ("invalid" when it does not decode)
NotUtf8 == [utf8 |-> FALSE, scheme |-> "none", decoded |-> "invalid"]
HeaderValues ==
  {NotUtf8} \cup [utf8 : {TRUE}, scheme : {"basic ", "bearer"}, decoded : {"user:pass", "user:nope", "invalid"}]

\* the requests a client sends: how the request ends (complete, cut by EOF, or
\* longer than 4096 bytes), request line, Proxy-Authorization headers in order,
\* and the number of other headers
HttpRequests ==
  [framing : {"complete", "eof", "toolong"}, method : {"CONNECT", "GET"}, version : {0, 1},
   path_ok : BOOLEAN, creds : SeqsUpTo(HeaderValues, MaxCreds),
   others : {0, HeaderSlots - 1, HeaderSlots}]
HttpAuths == {Nothing, Some("user:pass")}

\* http_inbound.rs 86-109: the scan of the headers for a matching credential
RECURSIVE scan_headers(_, _, _)
scan_headers(hdrs, auth, r) ==
  IF hdrs = <<>> THEN r
  ELSE LET hdr == Head(hdrs)
       IN IF ~hdr.utf8 THEN r
          ELSE scan_headers(Tail(hdrs), auth,
                            r \/ (hdr.scheme = "basic " /\ hdr.decoded # "invalid" /\ hdr.decoded = auth))

\* http_inbound.rs 84-112
authorized(auth, req) ==
  IF auth # Nothing THEN scan_headers(req.creds, auth[1], FALSE) ELSE TRUE

HttpOutcome(wrote, submitted, ok) == [wrote |-> wrote, submitted |-> submitted, ok |-> ok]

\* http_inbound.rs 53-126: HttpInbound::serve_connection, the client reading
\* whatever is written to it
http_serve_connection(auth, req) ==
  IF req.framing # "complete" THEN HttpOutcome(<<>>, FALSE, FALSE)
  ELSE IF Len(req.creds) + req.others > HeaderSlots THEN HttpOutcome(<<>>, FALSE, FALSE)
  ELSE IF req.method = "CONNECT" /\ req.version = 1 /\ req.path_ok
  THEN IF ~authorized(auth, req) THEN HttpOutcome(<<"403">>, FALSE, FALSE)
       ELSE HttpOutcome(<<"200">>, TRUE, TRUE)
  ELSE HttpOutcome(<<"403">>, FALSE, FALSE)

InboundFrame == UNCHANGED <<dvars, cvars, cfg, bld, mrun, rvars, tvars, stack, nat, main, drv>>

\* http_inbound.rs 39-43: a connection is accepted and served
ServeHttp ==
  /\ inb = NoConn
  /\ \E auth \in HttpAuths, req \in HttpRequests :
       inb' = [pc |-> "http", auth |-> auth, req |-> req, out |-> http_serve_connection(auth, req)]
  /\ InboundFrame

\* the client goes away
CloseConn ==
  /\ inb.pc \in {"http", "socks"}
  /\ inb' = [inb EXCEPT !.pc = "closed"]
  /\ InboundFrame

InboundInit == DispatchIdle /\ ChainIdle /\ BuilderIdle

HttpNext ==
  \/ ServeHttp
  \/ CloseConn

HttpSpec == InboundInit /\ [][HttpNext]_vars


\* the protocol bytes of fast_socks5::consts that socks5_inbound.rs compares
SOCKS5_VERSION == 5
SOCKS5_AUTH_METHOD_NONE == 0
SOCKS5_AUTH_METHOD_PASSWORD == 2
SOCKS5_AUTH_METHOD_NOT_ACCEPTABLE == 255
SOCKS5_CMD_TCP_CONNECT == 1
SOCKS5_CMD_UDP_ASSOCIATE == 3
SOCKS5_REPLY_SUCCEEDED == 0
\* the version byte RFC 1929 gives to the username/password sub-negotiation
RFC1929_VERSION == 1

\* the configured AuthData, and what clients send: names are byte strings
AuthData == [username |-> <<1>>, password |-> <<2>>]
SocksAuths == {Nothing, Some(AuthData)}
Names == {<<>>, <<1>>, <<2>>}
\* clients speak version 4 or 5, offer any of the methods 0, 1 (GSSAPI), 2,
\* open the sub-negotiation with 1 or 5 and ask for CONNECT, BIND (2) or
\* UDP ASSOCIATE
Greetings ==
  [version : {4, SOCKS5_VERSION},
   methods : SUBSET {SOCKS5_AUTH_METHOD_NONE, 1, SOCKS5_AUTH_METHOD_PASSWORD}]
SubNegotiations ==
  [version : {RFC1929_VERSION, SOCKS5_VERSION}, username : Names, password : Names]
SocksRequests ==
  [version : {4, SOCKS5_VERSION},
   cmd : {SOCKS5_CMD_TCP_CONNECT, 2, SOCKS5_CMD_UDP_ASSOCIATE},
   addr_ok : BOOLEAN, bind_ok : BOOLEAN]

\* the result of one stage of the handshake: whether it went on, and the bytes
\* written to the client
Stage(ok, wrote) == [ok |-> ok, wrote |-> wrote]

\* socks5_inbound.rs 143-147
supported(auth) ==
  IF auth # Nothing THEN SOCKS5_AUTH_METHOD_PASSWORD ELSE SOCKS5_AUTH_METHOD_NONE

\* socks5_inbound.rs 134-161: process_auth up to the method selection
negotiate_method(auth, g) ==
  IF g.version # SOCKS5_VERSION THEN Stage(FALSE, <<>>)
  ELSE IF supported(auth) \notin g.methods
  THEN Stage(FALSE, <<<<SOCKS5_VERSION, SOCKS5_AUTH_METHOD_NOT_ACCEPTABLE>>>>)
  ELSE Stage(TRUE, <<<<SOCKS5_VERSION, supported(auth)>>>>)

\* a check of the credential that looks at the username only
check_password_username_only(auth, sub) ==
  IF sub.version # SOCKS5_VERSION THEN Stage(FALSE, <<>>)
  ELSE IF Len(sub.username) < 1 THEN Stage(FALSE, <<>>)
  ELSE IF Len(sub.password) < 1 THEN Stage(FALSE, <<>>)
  ELSE IF sub.username = auth.username
  THEN Stage(TRUE, <<<<1, SOCKS5_REPLY_SUCCEEDED>>>>)
  ELSE Stage(FALSE, <<<<1, SOCKS5_AUTH_METHOD_NOT_ACCEPTABLE>>>>)

\* socks5_inbound.rs 162-195: process_auth, the username/password stage
check_password(auth, sub) ==
  IF sub.version # SOCKS5_VERSION THEN Stage(FALSE, <<>>)
  ELSE IF Len(sub.username) < 1 THEN Stage(FALSE, <<>>)
  ELSE IF Len(sub.password) < 1 THEN Stage(FALSE, <<>>)
  ELSE IF sub.username = auth.username /\ sub.password = auth.password
  THEN Stage(TRUE, <<<<1, SOCKS5_REPLY_SUCCEEDED>>>>)
  ELSE Stage(FALSE, <<<<1, SOCKS5_AUTH_METHOD_NOT_ACCEPTABLE>>>>)

\* socks5_inbound.rs 64-126: serve_connection after process_auth; `flow` is
\* what is handed to the dispatcher
serve_request(req) ==
  IF req.version # SOCKS5_VERSION THEN [ok |-> FALSE, wrote |-> <<>>, flow |-> "none"]
  ELSE IF ~req.addr_ok THEN [ok |-> FALSE, wrote |-> <<>>, flow |-> "none"]
  ELSE IF req.cmd = SOCKS5_CMD_TCP_CONNECT
  THEN [ok |-> TRUE, wrote |-> <<<<SOCKS5_VERSION, SOCKS5_REPLY_SUCCEEDED>>>>, flow |-> "tcp"]
  ELSE IF req.cmd = SOCKS5_CMD_UDP_ASSOCIATE
  THEN IF req.bind_ok
       THEN [ok |-> TRUE, wrote |-> <<<<SOCKS5_VERSION, SOCKS5_REPLY_SUCCEEDED>>>>, flow |-> "udp"]
       ELSE [ok |-> FALSE, wrote |-> <<>>, flow |-> "none"]
  ELSE [ok |-> FALSE, wrote |-> <<>>, flow |-> "none"]

\* where serve_connection stands after a stage
AfterStage(ok, next) == IF ok THEN next ELSE "socks"

\* socks5_inbound.rs 42-47, 134-161: a connection is accepted and the methods
\* are negotiated
SocksGreeting ==
  /\ inb = NoConn
  /\ \E auth \in SocksAuths, g \in Greetings :
       LET r == negotiate_method(auth, g)
       IN inb' = [pc |-> AfterStage(r.ok, IF auth # Nothing THEN "socks_auth" ELSE "socks_request"),
                  auth |-> auth, greeting |-> g, sub |-> Nothing, req |-> Nothing,
                  wrote |-> r.wrote, flow |-> "none", ok |-> r.ok]
  /\ InboundFrame

\* socks5_inbound.rs 162-197
SocksAuth ==
  /\ inb.pc = "socks_auth"
  /\ \E sub \in SubNegotiations :
       LET r == check_password(inb.auth[1], sub)
       IN inb' = [inb EXCEPT !.pc = AfterStage(r.ok, "socks_request"), !.sub = Some(sub),
                             !.wrote = @ \o r.wrote, !.ok = r.ok]
  /\ InboundFrame

\* socks5_inbound.rs 64-126
SocksRequest ==
  /\ inb.pc = "socks_request"
  /\ \E req \in SocksRequests :
       LET r == serve_request(req)
       IN inb' = [inb EXCEPT !.pc = "socks", !.req = Some(req), !.wrote = @ \o r.wrote,
                             !.flow = r.flow, !.ok = r.ok]
  /\ InboundFrame

\* the client closes in the middle of the handshake: read_exact fails
SocksEof ==
  /\ inb.pc \in {"socks_auth", "socks_request"}
  /\ inb' = [inb EXCEPT !.pc = "socks", !.ok = FALSE]
  /\ InboundFrame

SocksNext ==
  \/ SocksGreeting
  \/ SocksAuth
  \/ SocksRequest
  \/ SocksEof
  \/ CloseConn

SocksSpec == InboundInit /\ [][SocksNext]_vars

----------------------------------------------------------------------------
(* The session NAT and the TUN TCP inbound: proxy/manager.rs (from the spec), tun_inbound.rs *)

NatPorts == {"n1", "n2"}
SessionSrcs == {"src1"}
SessionDsts == {[ip |-> "fake1", port |-> 80], [ip |-> "ip1", port |-> 443]}
Kinds == {"Tcp", "Udp"}
\* the ports of each kind; a port of one kind may be in use by the other
PoolOf(kind) == IF kind = "Tcp" THEN NatPorts ELSE {"n1"}

\* Dns::fake_ip_to_domain: the reverse map of the fake-IP pool
fake_ip_to_domain(ip) == IF ip = "fake1" THEN Some("a.com") ELSE Nothing

\* spec 3: SessionEntry; the indicator starts at 2. last_seen is read for
\* Udp entries only and is kept at 0 in Tcp entries
SessionEntry(kind, port, src, dst, now) ==
  [kind |-> kind, port |-> port, src |-> src, dst |-> dst, indicator |-> 2,
   zero_at |-> Nothing, last_seen |-> IF kind = "Udp" THEN now ELSE 0]

OfKind(table, kind) == {e \in table : e.kind = kind}

\* spec 4.1: the ports register may hand out, fresh within the kind
fresh_ports(table, kind) == PoolOf(kind) \ {e.port : e \in OfKind(table, kind)}

\* a register that hands out any port
register_any_port(table, kind, port, src, dst, now) ==
  table \cup {SessionEntry(kind, port, src, dst, now)}

\* spec 4.1: register_tcp / register_udp with the port the allocator picked
register(table, kind, port, src, dst, now) ==
  IF port \in fresh_ports(table, kind)
  THEN table \cup {SessionEntry(kind, port, src, dst, now)}
  ELSE table

\* spec 4.1: lookup_tcp / lookup_udp
lookup_session(table, kind, port) ==
  LET hits == {e \in OfKind(table, kind) : e.port = port}
  IN IF hits = {} THEN Nothing ELSE Some(CHOOSE e \in hits : TRUE)

\* the shared indicator of an entry is stored to
store(table, e, v) ==
  (table \ {e}) \cup
    {[e EXCEPT !.indicator = v,
               !.zero_at = IF v = 0 /\ e.indicator # 0 THEN Some(nat.now) ELSE e.zero_at]}

\* spec 4.1: flush(now)
Reaped(e, now) ==
  \/ e.indicator = 0 /\ e.zero_at # Nothing /\ now - e.zero_at[1] > Grace
  \/ e.kind = "Udp" /\ now - e.last_seen > NatUdpTimeout
flush(table, now) == {e \in table : ~Reaped(e, now)}

\* tun_inbound.rs 53-59
tun_dst(dst) ==
  LET name == fake_ip_to_domain(dst.ip)
  IN IF name = Nothing THEN [t |-> "Raw", a |-> dst]
     ELSE [t |-> "DomainName", domain_name |-> name[1], port |-> dst.port]

\* a pass that serves some session of the table whatever the port
tun_pass_any_session(n, port, submit_ok) ==
  LET tcp == OfKind(n.table, "Tcp")
  IN IF tcp = {} THEN [n EXCEPT !.accepts = @ + 1, !.port = port, !.flow = NoFlow]
     ELSE LET e == CHOOSE x \in tcp : TRUE
          IN [n EXCEPT !.accepts = @ + 1, !.port = port,
                       !.flow = [port |-> port, inbound |-> "Tun", src |-> e.src, dst |-> tun_dst(e.dst)],
                       !.table = IF submit_ok THEN @ ELSE store(@, e, 0)]

\* a pass that resets the indicator when the submit fails
tun_pass_reset(n, port, submit_ok) ==
  LET found == lookup_session(n.table, "Tcp", port)
  IN IF found = Nothing THEN [n EXCEPT !.accepts = @ + 1, !.port = port, !.flow = NoFlow]
     ELSE [n EXCEPT !.accepts = @ + 1, !.port = port,
                    !.flow = [port |-> port, inbound |-> "Tun", src |-> found[1].src,
                              dst |-> tun_dst(found[1].dst)],
                    !.table = IF submit_ok THEN @ ELSE store(@, found[1], 2)]

\* a pass that submits the recorded destination as it is
tun_pass_raw(n, port, submit_ok) ==
  LET found == lookup_session(n.table, "Tcp", port)
  IN IF found = Nothing THEN [n EXCEPT !.accepts = @ + 1, !.port = port, !.flow = NoFlow]
     ELSE [n EXCEPT !.accepts = @ + 1, !.port = port,
                    !.flow = [port |-> port, inbound |-> "Tun", src |-> found[1].src,
                              dst |-> [t |-> "Raw", a |-> found[1].dst]],
                    !.table = IF submit_ok THEN @ ELSE store(@, found[1], 0)]

\* tun_inbound.rs 49-77: one pass of the accept loop after a successful accept
tun_pass(n, port, submit_ok) ==
  LET found == lookup_session(n.table, "Tcp", port)
  IN IF found = Nothing THEN [n EXCEPT !.accepts = @ + 1, !.port = port, !.flow = NoFlow]
     ELSE [n EXCEPT !.accepts = @ + 1, !.port = port,
                    !.flow = [port |-> port, inbound |-> "Tun", src |-> found[1].src,
                              dst |-> tun_dst(found[1].dst)],
                    !.table = IF submit_ok THEN @ ELSE store(@, found[1], 0)]

NatFrame == UNCHANGED <<dvars, cvars, cfg, bld, mrun, rvars, tvars, stack, inb, main, drv>>

\* the TUN device sees a new flow of the kind and registers it
RegisterKind(kind) ==
  /\ \E src \in SessionSrcs, dst \in SessionDsts :
       /\ fresh_ports(nat.table, kind) # {}
       /\ \E port \in NatPorts :
            /\ register(nat.table, kind, port, src, dst, nat.now) # nat.table
            /\ nat' = [nat EXCEPT !.table = register(@, kind, port, src, dst, nat.now)]
  /\ NatFrame

RegisterTcp == RegisterKind("Tcp")
RegisterUdp == RegisterKind("Udp")

\* tun_inbound.rs 40-78: a connection arrives on the NAT listener, from a
\* port that may or may not be registered
TunAccept ==
  /\ nat.listening
  /\ nat.accepts < MaxAccepts
  /\ \E port \in NatPorts, submit_ok \in BOOLEAN :
       nat' = tun_pass(nat, port, submit_ok)
  /\ NatFrame

\* tun_inbound.rs 42-48: accept fails and run returns
TunAcceptError ==
  /\ nat.listening
  /\ nat' = [nat EXCEPT !.listening = FALSE]
  /\ NatFrame

\* spec 4.1: one half of a flow lets go of its count
Release ==
  /\ \E e \in nat.table :
       /\ e.indicator > 0
       /\ nat' = [nat EXCEPT !.table = store(@, e, e.indicator - 1)]
  /\ NatFrame

\* main.rs 349: the flush task sleeps to its next deadline and flushes
NatSleep ==
  /\ nat.now < nat.next_flush
  /\ nat' = [nat EXCEPT !.now = nat.next_flush]
  /\ NatFrame

\* a second passes
NatTick ==
  /\ nat.now < nat.next_flush
  /\ nat' = [nat EXCEPT !.now = @ + 1]
  /\ NatFrame

Flush ==
  /\ nat.now = nat.next_flush
  /\ nat.next_flush < MaxFlushes * FlushInterval + 1
  /\ nat' = [nat EXCEPT !.table = flush(@, nat.now), !.next_flush = @ + FlushInterval]
  /\ NatFrame

NatInit == DispatchIdle /\ ChainIdle /\ BuilderIdle

NatNext ==
  \/ RegisterTcp
  \/ RegisterUdp
  \/ TunAccept
  \/ Release
  \/ NatSleep
  \/ Flush

NatSpec == NatInit /\ [][NatNext]_vars

TunNext ==
  \/ RegisterTcp
  \/ TunAccept
  \/ TunAcceptError
  \/ Release
  \/ NatSleep
  \/ Flush

TunSpec == NatInit /\ [][TunNext]_vars

\* the table and its flush timer second by second
ReapNext ==
  \/ RegisterTcp
  \/ Release
  \/ NatTick
  \/ Flush

ReapSpec == NatInit /\ [][ReapNext]_vars

----------------------------------------------------------------------------
(* The process: main, main.rs 130-402 *)

\* how a failing step of the initialisation ends main: `return
\* ExitCode::from(1)` or a panic raised by expect / unwrap
Returns(step) == [step |-> step, fail |-> "return"]
Panics(step) == [step |-> step, fail |-> "panic"]

\* main.rs 131-226: the steps up to the NAT address, in order
StepsBeforeBuild ==
  << Returns("is_root"), Panics("parse_config_path"), Panics("Runtime::new"),
     Panics("get_default_route"), Returns("load_config"), Panics("new_bootstrap_resolver"),
     Returns("parse_dns_config"), Panics("Dns::with_config"), Panics("TunDevice::open"),
     Panics("set_network_address"), Panics("tun.up"), Panics("TunConfigure::enable"),
     Panics("get_iface_address") >>

\* main.rs 229-310: the steps that build the dispatcher; the rewrite rules
\* are parsed only when the configuration has some
StepsOfDispatcher(rewrite) ==
  << Returns("build"), Returns("load_cert_and_key"), Returns("build_filter") >>
  \o (IF rewrite
      THEN << Returns("mapping_rewrite"), Returns("UrlModManager::new"), Returns("HeaderModManager::new") >>
      ELSE << >>)

InitSteps(rewrite) == StepsBeforeBuild \o StepsOfDispatcher(rewrite)

\* the exit status of a process whose main thread panicked
PanicExitCode == 101

Exited(m, code, cause) == [m EXCEPT !.pc = "exited", !.code = code, !.cause = cause]

\* main.rs 130-310: one step of the initialisation, succeeding or not
init_step(m, ok) ==
  LET cur == InitSteps(m.rewrite)[m.step]
  IN IF ok
     THEN IF m.step = Len(InitSteps(m.rewrite))
          THEN [m EXCEPT !.pc = "running"]
          ELSE [m EXCEPT !.step = @ + 1]
     ELSE IF cur.fail = "return" THEN Exited(m, 1, cur.step)
          ELSE Exited(m, PanicExitCode, cur.step)

MainFrame == UNCHANGED <<dvars, cvars, cfg, bld, mrun, rvars, tvars, stack, inb, nat, drv>>

\* the process is started with some configuration on disk
MainStart ==
  /\ main.pc = "start"
  /\ \E rewrite \in BOOLEAN, http_port \in BOOLEAN, socks5_port \in BOOLEAN :
       main' = [pc |-> "init", step |-> 1, rewrite |-> rewrite, http_port |-> http_port,
                socks5_port |-> socks5_port, reloads |-> 0, code |-> 0, cause |-> "none"]
  /\ MainFrame

MainInit ==
  /\ main.pc = "init"
  /\ \E ok \in BOOLEAN : main' = init_step(main, ok)
  /\ MainFrame

\* main.rs 375-390: a restart request arrives on the control channel
MainRestart ==
  /\ main.pc = "running"
  /\ main.reloads < MaxReloads
  /\ main' = [main EXCEPT !.reloads = @ + 1]
  /\ MainFrame

\* main.rs 374, 397-401
MainCtrlC ==
  /\ main.pc = "running"
  /\ main' = Exited(main, 0, "ctrl_c")
  /\ MainFrame

\* main.rs 391-393, 397-401: the control channel is closed
MainChannelClosed ==
  /\ main.pc = "running"
  /\ main' = Exited(main, 0, "channel_closed")
  /\ MainFrame

MainNext ==
  \/ MainStart
  \/ MainInit
  \/ MainRestart
  \/ MainCtrlC
  \/ MainChannelClosed

MainSpec == NatInit /\ [][MainNext]_vars

----------------------------------------------------------------------------
(* Properties of the dispatching engine *)

LastTrace == last.res.trace
LastEnv == Env(sel, dns)
\* the event that produced the decision of the last call
Deciding == LastTrace[Len(LastTrace)]
OverlayHit == \E n \in 1..Len(LastTrace) : LastTrace[n].where = "temp" /\ LastTrace[n].hit
MainConsulted == \E n \in 1..Len(LastTrace) : LastTrace[n].where = "main"
\* the overlay alone, on the ConnInfo the last call started from
OverlayAlone == TemporaryList_matches(built.temporary_list, last.before, LastEnv)

\* the events of the main snippet's own entries and of its own fallback
IsTopMain(e) ==
  /\ e.where = "main"
  /\ IF e.what = "fallback" THEN e.path = <<>> ELSE Len(e.path) = 1
TopMain == SelectSeq(LastTrace, IsTopMain)

\* the ConnInfo entry k of a list sees: a LocalResolve before k has resolved it
InfoAt(rules, k, i, d) ==
  IF \E j \in 1..(k - 1) : rules[j].t = "LocalResolve" THEN resolve_to(i, d) ELSE i

\* whether an entry produces a decision for a ConnInfo
Produces(v, i) ==
  CASE v.t = "Rule" -> RuleMatches(v.pred, i)
    [] v.t = "LocalResolve" -> FALSE
    [] v.t = "SubDispatch" -> RuleMatches(v.pred, i)

\* index of the first entry of the list that produces a decision; Len + 1 when none does
FirstProducing(rules, i, d) ==
  LET hits == {k \in 1..Len(rules) : Produces(rules[k], InfoAt(rules, k, i, d))}
  IN IF hits = {} THEN Len(rules) + 1
     ELSE CHOOSE k \in hits : \A j \in hits : k <= j

\* C1: when the overlay matches, matches returns the overlay's decision and
\* no rule and no fallback of the main snippet is evaluated; the main snippet
\* is evaluated exactly when the overlay yields no match.
OverlayPrecedence ==
  last.called =>
    /\ OverlayAlone.dec # NoMatch =>
         /\ last.res.dec = OverlayAlone.dec
         /\ last.res.info = OverlayAlone.info
         /\ ~MainConsulted
    /\ MainConsulted <=> OverlayAlone.dec = NoMatch
    /\ OverlayHit <=> OverlayAlone.dec # NoMatch

\* the overlay matched although the main snippet has a rule for the flow
OverlayPrecedenceWitness ==
  /\ last.called
  /\ OverlayHit
  /\ FirstProducing(built.snippet.rules, last.before, dns) <= Len(built.snippet.rules)

\* C2: the main snippet's entries are evaluated in list order, from the first
\* one up to the lowest-index entry that produces a decision (or to the
\* fallback), that entry's decision is returned, and no later entry is evaluated.
FirstMatchWins ==
  (last.called /\ MainConsulted) =>
    LET rules == built.snippet.rules
        first == FirstProducing(rules, OverlayAlone.info, dns)
    IN /\ Len(TopMain) = first
       /\ \A n \in 1..Len(TopMain) :
            /\ TopMain[n].what # "fallback" => TopMain[n].path = <<n>>
            /\ TopMain[n].what = "fallback" <=> n = Len(rules) + 1
            /\ TopMain[n].hit <=> n = first
       /\ Deciding.hit
       /\ Deciding.what \in {"rule", "fallback"}
       /\ Len(Deciding.path) >= 1 => Deciding.path[1] = first
       /\ last.res.dec = proxy_filtering(Deciding.proxy, last.before, sel)

\* two entries would produce a decision; the first one did
FirstMatchWinsWitness ==
  /\ last.called
  /\ MainConsulted
  /\ LET rules == built.snippet.rules
         first == FirstProducing(rules, OverlayAlone.info, dns)
     IN /\ first < Len(rules)
        /\ \E k \in (first + 1)..Len(rules) : Produces(rules[k], last.res.info)

\* every ConnInfo value a flow can carry
AllConnInfos ==
  {ConnInfo(d, r, ty, pr) : d \in Dsts, r \in Addrs \cup {None}, ty \in NetworkTypes, pr \in Processes}

RECURSIVE SnippetsHaveFallback(_)
\* the snippet and every sub-snippet nested in it carries a fallback proxy
SnippetsHaveFallback(snip) ==
  /\ snip.fallback # NoProxy
  /\ \A k \in 1..Len(snip.rules) :
       snip.rules[k].t = "SubDispatch" => SnippetsHaveFallback(snip.rules[k].snippet)

\* C3: a Dispatching produced by build or build_filter carries a fallback and
\* returns a decision for every ConnInfo; when no overlay entry and no snippet
\* entry produces one, the decision is the snippet's fallback passed through
\* proxy_filtering.
FallbackTotality ==
  built.status = "ok" =>
    /\ SnippetsHaveFallback(built.snippet)
    /\ \A i \in AllConnInfos :
         LET r == Dispatching_matches(built, i, LastEnv)
             snipInfo == TemporaryList_matches(built.temporary_list, i, LastEnv).info
         IN /\ r.dec # NoMatch
            /\ r.dec.impl \in {"Direct", "Reject", "Http"}
            /\ ( /\ TemporaryList_matches(built.temporary_list, i, LastEnv).dec = NoMatch
                 /\ FirstProducing(built.snippet.rules, snipInfo, dns) = Len(built.snippet.rules) + 1 )
               => r.dec = proxy_filtering(built.snippet.fallback, i, sel)
    /\ last.called => last.res.dec # NoMatch

\* a call went through rules of the overlay and of the snippet, none matched,
\* and the fallback decided
FallbackTotalityWitness ==
  /\ last.called
  /\ Len(built.temporary_list) > 0
  /\ Len(built.snippet.rules) > 0
  /\ Deciding = Ev("main", <<>>, "fallback", TRUE, built.snippet.fallback)
  /\ last.res.dec = proxy_filtering(built.snippet.fallback, last.before, sel)

UdpFiltering ==
  (last.called /\ MainConsulted) =>
    LET raw == get_impl(Deciding.proxy, sel)
        udp == last.before.connection_type = "Udp"
    IN /\ udp => support_udp(last.res.dec.impl)
       /\ (udp /\ ~support_udp(raw.impl)) => last.res.dec = Decision("Reject", None)
       /\ ~(udp /\ ~support_udp(raw.impl)) => last.res.dec = raw

\* a UDP flow was decided by a group whose selected member is the HTTP proxy
UdpFilteringWitness ==
  /\ last.called /\ MainConsulted
  /\ last.before.connection_type = "Udp"
  /\ Deciding.proxy = Group("G")
  /\ get_impl(Deciding.proxy, sel) = Decision("Http", "eth0")
  /\ last.res.dec = Decision("Reject", None)

IsPrefix(p, q) == Len(p) <= Len(q) /\ \A n \in 1..Len(p) : p[n] = q[n]

\* C6: a SubDispatch entry of the main snippet whose predicate holds returns
\* the sub-snippet's decision (a sub-rule's or the sub-snippet's fallback):
\* nothing of the outer snippet is evaluated after it; when the predicate does
\* not hold, the next outer entry (or the outer fallback) is evaluated.
SubDispatchDecides ==
  (last.called /\ MainConsulted) =>
    \A n \in 1..Len(LastTrace) :
      LET e == LastTrace[n]
      IN (e.where = "main" /\ e.what = "sub" /\ Len(e.path) = 1) =>
           LET k == e.path[1]
               v == built.snippet.rules[k]
               holds == RuleMatches(v.pred, InfoAt(built.snippet.rules, k, OverlayAlone.info, dns))
           IN /\ e.hit <=> holds
              /\ holds =>
                   /\ n < Len(LastTrace)
                   /\ \A m \in (n + 1)..Len(LastTrace) :
                        /\ IsPrefix(e.path, LastTrace[m].path)
                        /\ LastTrace[m].what = "fallback" => LastTrace[m].path = e.path
                        /\ LastTrace[m].what # "fallback" => Len(LastTrace[m].path) = 2
                   /\ last.res.dec = proxy_filtering(Deciding.proxy, last.before, sel)
                   /\ \/ Deciding = Ev("main", e.path, "fallback", TRUE, v.snippet.fallback)
                      \/ \E j \in 1..Len(v.snippet.rules) :
                           Deciding = Ev("main", <<k, j>>, "rule", TRUE, v.snippet.rules[j].proxy)
              /\ ~holds =>
                   /\ n < Len(LastTrace)
                   /\ LastTrace[n + 1].where = "main"
                   /\ IF k < Len(built.snippet.rules)
                      THEN LastTrace[n + 1].path = <<k + 1>> /\ LastTrace[n + 1].what # "fallback"
                      ELSE LastTrace[n + 1].path = <<>> /\ LastTrace[n + 1].what = "fallback"

\* the sub-snippet's fallback decided although a later outer rule matches the flow
SubDispatchDecidesWitness ==
  /\ last.called /\ MainConsulted
  /\ \E k \in 1..Len(built.snippet.rules) :
       /\ built.snippet.rules[k].t = "SubDispatch"
       /\ Deciding = Ev("main", <<k>>, "fallback", TRUE, built.snippet.rules[k].snippet.fallback)
       /\ k < Len(built.snippet.rules)
       /\ Produces(built.snippet.rules[k + 1], last.res.info)
       /\ last.res.dec = Decision("Reject", None)

\* C7: matches leaves src, dst, inbound, connection type and process info of
\* the ConnInfo as they were; resolved_dst changes only in a call that
\* evaluated a LocalResolve; a LocalResolve never produces the decision: the
\* evaluation goes on after it.
MatchesFrame ==
  last.called =>
    /\ info = last.res.info
    /\ info.src = last.before.src
    /\ info.dst = last.before.dst
    /\ info.inbound = last.before.inbound
    /\ info.connection_type = last.before.connection_type
    /\ info.process_info = last.before.process_info
    /\ info.resolved_dst # last.before.resolved_dst =>
         \E n \in 1..Len(LastTrace) : LastTrace[n].what = "resolve"
    /\ \A n \in 1..Len(LastTrace) :
         LastTrace[n].what = "resolve" => (~LastTrace[n].hit /\ n < Len(LastTrace))

\* a call populated resolved_dst
MatchesFrameWitness ==
  /\ last.called
  /\ last.before.resolved_dst = None
  /\ info.resolved_dst # None
  /\ \E n \in 1..Len(LastTrace) : LastTrace[n].what = "resolve"

----------------------------------------------------------------------------
(* Properties of the chain executor *)

RECURSIVE CarrierBefore(_, _, _)
\* the carrier in front of hop h: the carrier the chain was spawned with,
\* switched by every earlier hop that is TcpOverUdp on Tcp or UdpOverTcp on Udp
CarrierBefore(c, c0, h) ==
  IF h = 1 THEN c0
  ELSE LET prev == CarrierBefore(c, c0, h - 1)
       IN IF prev = "Tcp"
          THEN IF c[h - 1].tcp = "TcpOverUdp" THEN "Udp" ELSE "Tcp"
          ELSE IF c[h - 1].udp = "UdpOverTcp" THEN "Tcp" ELSE "Udp"

\* prev_inbound of hop h
PrevInbound(h) == IF h = 1 THEN Inbound0 ELSE Outer(h - 1)

IsTerminalCall(call) == call.op \in {"spawn_tcp", "spawn_udp"}
TerminalCalls == {n \in 1..Len(calls) : IsTerminalCall(calls[n])}

\* C8: the call on a non-terminal hop follows from (carrier, transfer type of
\* the hop): Tcp and TcpOverUdp -> spawn_tcp_with_outbound(prev, None,
\* Some(datagram inner)), carrier Udp; Tcp otherwise -> spawn_tcp_with_outbound(
\* prev, Some(byte inner), None), carrier Tcp; Udp and UdpOverTcp ->
\* spawn_udp_with_outbound(prev, Some(byte inner), None), carrier Tcp; Udp
\* otherwise -> spawn_udp_with_outbound(prev, None, Some(datagram inner)),
\* carrier Udp.
ChainCallTable ==
  \A n \in 1..Len(calls) :
    LET call == calls[n]
        c == CarrierBefore(chain, carrier0, n)
        H == chain[n]
    IN /\ call.hop = n
       /\ n < Len(chain) =>
            /\ call.inbound = PrevInbound(n)
            /\ (c = "Tcp" /\ H.tcp = "TcpOverUdp") =>
                 /\ call.op = "spawn_tcp_with_outbound"
                 /\ call.tcp_out = Nothing /\ call.udp_out = Some(Inner(n))
                 /\ conns[n] = "datagram"
            /\ (c = "Tcp" /\ H.tcp # "TcpOverUdp") =>
                 /\ call.op = "spawn_tcp_with_outbound"
                 /\ call.tcp_out = Some(Inner(n)) /\ call.udp_out = Nothing
                 /\ conns[n] = "byte"
            /\ (c = "Udp" /\ H.udp = "UdpOverTcp") =>
                 /\ call.op = "spawn_udp_with_outbound"
                 /\ call.tcp_out = Some(Inner(n)) /\ call.udp_out = Nothing
                 /\ conns[n] = "byte"
            /\ (c = "Udp" /\ H.udp # "UdpOverTcp") =>
                 /\ call.op = "spawn_udp_with_outbound"
                 /\ call.tcp_out = Nothing /\ call.udp_out = Some(Inner(n))
                 /\ conns[n] = "datagram"
            /\ n = Len(calls) => (use_tcp <=> CarrierBefore(chain, carrier0, n + 1) = "Tcp")

\* a chain spawned on Tcp whose first hop switched to Udp and whose second
\* hop switched back to Tcp
ChainCallTableWitness ==
  /\ cresult = "Ok"
  /\ Len(chain) = 3
  /\ carrier0 = "Tcp"
  /\ calls[1].op = "spawn_tcp_with_outbound" /\ calls[1].udp_out = Some(Inner(1))
  /\ calls[2].op = "spawn_udp_with_outbound" /\ calls[2].tcp_out = Some(Inner(2))
  /\ calls[3].op = "spawn_tcp"

\* C9: taking the inbound never fails: in front of every hop the container
\* of the current carrier is filled and the other one is empty; the terminal
\* hop is called at most once, and exactly once, by spawn_tcp on carrier Tcp
\* and by spawn_udp on carrier Udp, when every non-terminal hop returned Ok.
CarrierInvariant ==
  /\ cresult # "Panic"
  /\ cpc = "loop" =>
       /\ (tcp_slot # Nothing) <=> use_tcp
       /\ (udp_slot # Nothing) <=> ~use_tcp
       /\ use_tcp <=> CarrierBefore(chain, carrier0, cidx) = "Tcp"
  /\ Cardinality(TerminalCalls) <= 1
  /\ cresult = "Err" => TerminalCalls = {}
  /\ cresult = "Ok" =>
       /\ TerminalCalls = {Len(chain)}
       /\ Len(calls) = Len(chain)
       /\ calls[Len(chain)].inbound = PrevInbound(Len(chain))
       /\ calls[Len(chain)].op =
            IF CarrierBefore(chain, carrier0, Len(chain)) = "Tcp" THEN "spawn_tcp" ELSE "spawn_udp"
       /\ calls[Len(chain)].op = "spawn_udp" => calls[Len(chain)].flag = Some(TRUE)

\* a chain spawned on Tcp ended on carrier Udp and called spawn_udp on its
\* terminal hop
CarrierInvariantWitness ==
  /\ cresult = "Ok"
  /\ Len(chain) = 3
  /\ carrier0 = "Tcp"
  /\ ~use_tcp
  /\ calls[3].op = "spawn_udp"

\* C10: the chain's task completes with success only after all hops have
\* finished, and with the error of the terminal hop when that hop fails.
ChainCompletion ==
  /\ cresult = "Ok" => term = "ok"
  /\ term = "err" => cresult = "Err"

\* the outbounds handed to a hop
Outbounds(call) == {call.tcp_out[k] : k \in 1..Len(call.tcp_out)}
                     \cup {call.udp_out[k] : k \in 1..Len(call.udp_out)}

\* C11: a chain of N hops creates exactly N-1 Connector pairs of capacity 10
\* and wires them as a pipeline: hop 1 receives the original inbound, hop i+1
\* the outer half of the pair whose inner half is hop i's outbound; hops are
\* called in list order, hop i+1 only after hop i returned Ok.
ChainPipeline ==
  /\ cpc # "idle" => Len(conns) <= Len(chain) - 1
  /\ cresult = "Ok" => Len(conns) = Len(chain) - 1
  /\ Len(conns) = Cardinality({n \in 1..Len(calls) : ~IsTerminalCall(calls[n])})
  /\ \A n \in 1..Len(calls) :
       /\ calls[n].hop = n
       /\ n = 1 => calls[n].inbound = Inbound0
       /\ n > 1 =>
            /\ calls[n].inbound = Outer(n - 1)
            /\ Outbounds(calls[n - 1]) = {Inner(n - 1)}
       /\ IsTerminalCall(calls[n]) => Outbounds(calls[n]) = {}
       /\ \A o \in Outbounds(calls[n]) : o.cap = 10 /\ o.pair = n
  /\ (cpc = "loop" /\ cresult = None) => Len(calls) = cidx - 1
  /\ cresult = "Err" => Len(calls) = cidx

\* a chain of three hops ran to its terminal hop over two pairs
ChainPipelineWitness ==
  /\ cresult = "Ok"
  /\ Len(chain) = 3
  /\ Len(conns) = 2
  /\ calls[2].inbound = Outer(1)
  /\ calls[3].inbound = Outer(2)

\* the Connector is fed by a hop of the chain, not by the application
FedByChain(conn) == \E n \in 1..MaxHops : conn = Outer(n)

\* C12: a tunnel flag (tunnel_only of spawn_udp, not_first of
\* spawn_udp_with_outbound) passed as true goes with an inbound fed by another
\* adapter of the chain; the flag is false for the first hop and true for
\* every later hop, chains of length 1 included.
TunnelFlag ==
  \A n \in 1..Len(calls) :
    calls[n].flag # Nothing =>
      /\ calls[n].flag = Some(TRUE) => FedByChain(calls[n].inbound)
      /\ calls[n].flag = Some(n > 1)

----------------------------------------------------------------------------
(* Properties of the builder *)

\* the line is a Simple line that parses as a fallback
IsFallbackLine(line) == line.t = "Simple" /\ parse_fallback_ok(line)
LastIsFallback(rules) == rules # <<>> /\ IsFallbackLine(rules[Len(rules)])
MissingFallback == "Bad rules: missing fallback"

\* C13 (as claimed): every rule list whose last line is not a fallback line
\* fails with the missing-fallback error and yields no Dispatching; success
\* only with a last line that parses as a fallback, which becomes the
\* snippet's fallback.
MissingFallbackError ==
  cfg.kind = "rules" =>
    /\ ~LastIsFallback(cfg.rules) =>
         /\ ~bld.res.ok /\ bld.res.err = MissingFallback
         /\ bld.dispatching = BuildFailed
    /\ bld.res.ok =>
         /\ LastIsFallback(cfg.rules)
         /\ bld.res.fallback = LookupProxy(cfg.rules[Len(cfg.rules)].proxy)

\* C13 (amended): every rule list whose last line is not a fallback line fails
\* and yields no Dispatching; the error is the missing-fallback error when
\* every line compiled, and the error of the first line that did not compile
\* otherwise (for a SubDispatch line, the error of its own sub-rules);
\* success only with a last line that parses as a fallback, which
\* becomes the snippet's fallback.
FallbackRequired ==
  cfg.kind = "rules" =>
    /\ ~LastIsFallback(cfg.rules) =>
         /\ ~bld.res.ok
         /\ bld.dispatching = BuildFailed
         /\ build_rules_loosely(cfg.rules).ok => bld.res.err = MissingFallback
         /\ ~build_rules_loosely(cfg.rules).ok => bld.res.err = build_rules_loosely(cfg.rules).err
    /\ bld.res.ok =>
         /\ LastIsFallback(cfg.rules)
         /\ bld.res.fallback = LookupProxy(cfg.rules[Len(cfg.rules)].proxy)
         /\ bld.dispatching.status = "ok"
         /\ bld.dispatching.snippet.fallback = bld.res.fallback

\* a list ending in a LocalResolve line, every line of which compiles, was
\* refused for its missing fallback
FallbackRequiredWitness ==
  /\ cfg.kind = "rules"
  /\ Len(cfg.rules) = 2
  /\ cfg.rules[2] = LocalResolveLine
  /\ bld.res.err = MissingFallback
  /\ bld.dispatching = BuildFailed

----------------------------------------------------------------------------
(* Properties of DispatchingBuilder::new *)

BuiltIn == {"DIRECT", "REJECT"}
ProvidedNames(c) == {c.proxy_schema[k] : k \in 1..Len(c.proxy_schema)}
\* the names of the proxies of the configuration, the built-in ones included
PlainProxies(c) == BuiltIn \cup c.proxy_local \cup ProvidedNames(c)

\* two of the names of proxies, groups and chains are the same
NameClash(c) ==
  \/ Declared(c) \cap PlainProxies(c) # {}
  \/ c.proxy_local \cap BuiltIn # {}
  \/ ProvidedNames(c) \cap (BuiltIn \cup c.proxy_local) # {}
  \/ \E j, k \in 1..Len(c.proxy_schema) : j # k /\ c.proxy_schema[j] = c.proxy_schema[k]

\* C14: proxy names, group names and chain names share one namespace:
\* building a configuration in which two of them carry the same name (two
\* proxies, or a group or chain named like a proxy, DIRECT and REJECT
\* included) fails.
SingleNamespace ==
  (cfg.kind = "groups" /\ NameClash(cfg.c)) => bld.status # "ok"

\* a reference of group g to p that resolves to a declared group or chain
\* (parse_one_proxy looks a name up among the proxies first)
RefersTo(c, g, p) ==
  /\ g \in Declared(c) \ PlainProxies(c)
  /\ p \in Declared(c) \ PlainProxies(c)
  /\ \E k \in 1..Len(BodyOf(c, g).proxies) : BodyOf(c, g).proxies[k] = p

RECURSIVE Reaches(_, _, _, _)
\* a path of at most n references leads from g to h
Reaches(c, g, h, n) ==
  /\ n > 0
  /\ \/ RefersTo(c, g, h)
     \/ \E m \in Declared(c) : RefersTo(c, g, m) /\ Reaches(c, m, h, n - 1)

Cyclic(c) == \E g \in Declared(c) : Reaches(c, g, g, Cardinality(Declared(c)))

\* a declared group may end with no member (it is skipped, and a reference
\* to it unwraps None)
MayBeEmpty(c) ==
  \E g \in Declared(c) :
    BodyOf(c, g).kind = "group" /\ BodyOf(c, g).proxies = <<>> /\ c.proxy_schema = <<>>

SelectionApplied ==
  (cfg.kind = "groups" /\ bld.status = "ok") =>
    \A n \in BuiltGroups(cfg.c, bld) :
      LET g == bld.groups[n]
          persisted == cfg.c.group_selection
      IN IF persisted.some /\ \E k \in 1..Len(g.members) : g.members[k].name = persisted.name
         THEN g.selection.name = persisted.name
         ELSE g.selection = g.members[1]

----------------------------------------------------------------------------
(* Properties of the overlay *)

\* what one uninterrupted matches returns with overlay x
AtomicMatch(x) ==
  Dispatching_matches(DispatchingOf(x, built.snippet), mrun.before, Env(sel, dns))

\* the finished call began after the last update_temporary_list
MatchedSinceUpdate == mrun.pc = "done" /\ mrun.since = <<cfg, bld>>

\* C17: update_temporary_list replaces the overlay with the compiled list
\* only when compilation succeeds; when a line fails to parse or the list ends
\* with a fallback line it returns an error and the previous overlay stays in
\* effect for the later matches.
FailedUpdateKeepsOverlay ==
  bld.kind = "update" =>
    LET r == build_rules_loosely(cfg.list)
    IN /\ bld.ok <=> (r.ok /\ r.fallback = NoProxy)
       /\ bld.ok => built.temporary_list = r.rules
       /\ ~bld.ok =>
            /\ bld.err # None
            /\ built.temporary_list = bld.before
            /\ MatchedSinceUpdate => last.res.dec = AtomicMatch(bld.before).dec

\* an update whose list ends with a fallback line was refused and a later
\* match was decided by the overlay installed before it
FailedUpdateKeepsOverlayWitness ==
  /\ bld.kind = "update"
  /\ ~bld.ok
  /\ bld.err = "Unexpected Fallback"
  /\ bld.before # <<>>
  /\ MatchedSinceUpdate
  /\ last.res.dec.impl \in {"Direct", "Reject"}

\* C18: a match running beside update_temporary_list evaluates the overlay
\* against one snapshot, the old list or the new one, never a mixture: its
\* result is that of an uninterrupted match on the list it loaded, which is
\* one of the lists installed while it ran.
SnapshotMatch ==
  mrun.pc = "done" =>
    /\ mrun.snap \in mrun.seen
    /\ last.res.dec = AtomicMatch(mrun.snap).dec
    /\ info = AtomicMatch(mrun.snap).info

\* the overlay was replaced after the match had evaluated its first entry,
\* and the match was decided by the list it had loaded
SnapshotMatchWitness ==
  /\ mrun.pc = "done"
  /\ mrun.pos = 2
  /\ built.temporary_list # mrun.snap
  /\ Len(built.temporary_list) = 2
  /\ last.res.dec.impl = "Direct"
  /\ AtomicMatch(built.temporary_list).dec.impl = "Reject"

----------------------------------------------------------------------------
(* Properties of the reload loop *)

\* the objects connections are served with, and the control surface's handle
Served(l) == <<l.api_dispatching, l.dispatching, l.eavesdrop_filter, l.modifier>>

\* C19: while reload() runs, and after it failed at whichever step, the active
\* Dispatching, the eavesdrop filter, the modifier and the control surface's
\* Dispatching are the ones of before the reload, and the loop is back in its
\* select!, serving
ReloadFailureKeepsLive ==
  /\ rpc.pc \in {"reload", "err"} => Served(live) = Served(rpc.prev)
  /\ rpc.outcome = "err" => rpc.pc = "select" /\ Served(live) = Served(rpc.prev)

\* a second reload that failed at the very last step, the resolver replacement,
\* after an earlier reload had been installed
ReloadFailureKeepsLiveWitness ==
  /\ rpc.outcome = "err"
  /\ rpc.gen = 2
  /\ ReloadSteps[rpc.step] = "replace_resolvers"
  /\ Served(live) = <<1, 1, 1, 1>>

----------------------------------------------------------------------------
(* Properties of the TCP task *)

\* the part of the carry-over that is not sent yet
Unsent(t) ==
  IF t.remain_to_send = Nothing THEN <<>>
  ELSE SubSeq(t.remain_to_send[1][1], t.remain_to_send[1][2] + 1, Len(t.remain_to_send[1][1]))

\* C20: while the flow is not aborted, the bytes pushed into the socket,
\* followed by the unsent rest of the carry-over, by the buffers waiting in the
\* task's queue and by those still in the Connector, are the bytes the
\* application handed over, each once and in order; a carry-over is a proper
\* unsent remainder of one buffer
StreamIntegrity ==
  ~task.aborted =>
    /\ Flatten(sock.tx) \o Unsent(task) \o Flatten(task.rx) \o Flatten(app.back)
         = Bytes(0, app.bytes)
    /\ task.remain_to_send # Nothing => Unsent(task) # <<>>

\* two buffers went out in four sends: both were sent short, the carry-over of
\* the first went out before the second buffer was fetched
StreamIntegrityWitness ==
  /\ ~task.aborted
  /\ app.bufs = 2 /\ app.bytes = 4
  /\ sock.tx = <<<<1>>, <<2>>, <<3>>, <<4>>>>
  /\ task.remain_to_send = Nothing /\ task.rx = <<>> /\ app.back = <<>>

\* C21: the queue between the application writer's Connector and the socket is
\* bounded: it never holds more buffers than the Connector's bounded channel
\* lets through at a time, the application being held back beyond that
DataPathBounded == Len(task.rx) <= ConnectorCapacity

----------------------------------------------------------------------------
(* Properties of the userspace stack *)

\* every task owns a socket of its kind, and no two tasks share one
StackWellFormed ==
  /\ \A p \in DOMAIN stack.tcp_conn :
       /\ stack.tcp_conn[p].handle \in DOMAIN stack.socket_set
       /\ stack.socket_set[stack.tcp_conn[p].handle].kind = "tcp"
  /\ \A p \in DOMAIN stack.udp_conn :
       /\ stack.udp_conn[p].handle \in DOMAIN stack.socket_set
       /\ stack.socket_set[stack.udp_conn[p].handle].kind = "udp"

\* the tasks of the stack, TCP and UDP
StackTasks ==
  {stack.tcp_conn[p] : p \in DOMAIN stack.tcp_conn} \cup {stack.udp_conn[p] : p \in DOMAIN stack.udp_conn}

\* C22: no send into a back channel ever had to wait, and the buffers queued
\* towards the application never exceed the capacity of the channel
BackChannelNeverWaits ==
  \A t \in StackTasks : ~t.waited /\ t.back <= ConnectorCapacity

\* a TCP task and a UDP task whose back channels are full while their sockets
\* hold more to read
BackChannelNeverWaitsWitness ==
  /\ \E p \in DOMAIN stack.tcp_conn :
       /\ stack.tcp_conn[p].back = ConnectorCapacity
       /\ stack.socket_set[stack.tcp_conn[p].handle].avail > 0
  /\ \E p \in DOMAIN stack.udp_conn :
       /\ stack.udp_conn[p].back = ConnectorCapacity
       /\ stack.socket_set[stack.udp_conn[p].handle].inq # <<>>
       /\ Head(stack.socket_set[stack.udp_conn[p].handle].inq) = stack.udp_conn[p].dest

\* C23: a call of open_tcp (open_udp) on a port that has a TCP (UDP) task
\* returns AddrInUse, it returns AddrInUse for no other reason, in particular
\* not for a task of the other kind on that port, and a call that fails, with
\* AddrInUse or because connect or bind failed, leaves the tasks, their
\* sockets and the socket set as they were
OpenFailureChangesNothing ==
  [][stack'.opened # stack.opened =>
       LET call == stack'.last
           own == IF call.op = "open_tcp" THEN stack.tcp_conn ELSE stack.udp_conn
       IN /\ call.res = "AddrInUse" <=> call.port \in DOMAIN own
          /\ call.res # "Ok" =>
               /\ stack'.tcp_conn = stack.tcp_conn
               /\ stack'.udp_conn = stack.udp_conn
               /\ stack'.socket_set = stack.socket_set
          /\ call.op = "open_tcp" => stack'.udp_conn = stack.udp_conn
          /\ call.op = "open_udp" => stack'.tcp_conn = stack.tcp_conn]_vars

\* open_tcp was refused on a port whose task has an established socket, and
\* the same port is free for UDP
OpenFailureChangesNothingWitness ==
  /\ stack.last = Op("open_tcp", "p1", "AddrInUse")
  /\ "p1" \in DOMAIN stack.tcp_conn
  /\ "p1" \notin DOMAIN stack.udp_conn
  /\ stack.socket_set[stack.tcp_conn["p1"].handle].state = "Established"

\* the tasks of a map whose AbortHandle a step cancels
Failing(conn) == {p \in DOMAIN conn : conn[p].abort_handle \in stack'.cancelled \ stack.cancelled}

\* C24: in a poll pass in which tasks fail, a task is torn down only by a
\* failure of its own (send error or disconnected channel), its socket is
\* closed and its AbortHandle cancelled, and every other task of the pass comes
\* out as its own poll leaves it, with its socket, carry-over and AbortHandle;
\* the flows of the other kind are not touched
FailureTearsDownOneFlow ==
  [][stack'.cancelled # stack.cancelled =>
       /\ Failing(stack.tcp_conn) = {} \/ Failing(stack.udp_conn) = {}
       /\ DOMAIN stack'.tcp_conn = DOMAIN stack.tcp_conn
       /\ DOMAIN stack'.udp_conn = DOMAIN stack.udp_conn
       /\ \A p \in DOMAIN stack.tcp_conn :
            LET t == stack.tcp_conn[p]
                s == stack.socket_set[t.handle]
                tt == stack'.tcp_conn[p]
                ss == stack'.socket_set[t.handle]
            IN IF p \in Failing(stack.tcp_conn)
               THEN /\ ~MaySend(ss)
                    /\ \E in \in TcpPollInputs(t, s) :
                         /\ poll_tcp(t, s, in).cancel
                         /\ tt = poll_tcp(t, s, in).task
                         /\ ss = poll_tcp(t, s, in).sock
               ELSE IF Failing(stack.tcp_conn) = {} THEN tt = t /\ ss = s
               ELSE \E in \in TcpPollInputs(t, s) :
                      /\ ~poll_tcp(t, s, in).cancel
                      /\ tt = poll_tcp(t, s, in).task
                      /\ ss = poll_tcp(t, s, in).sock
       /\ \A p \in DOMAIN stack.udp_conn :
            LET t == stack.udp_conn[p]
                s == stack.socket_set[t.handle]
                tt == stack'.udp_conn[p]
                ss == stack'.socket_set[t.handle]
            IN IF p \in Failing(stack.udp_conn)
               THEN /\ ~ss.open
                    /\ \E in \in UdpPollInputs(t, s) :
                         /\ poll_udp(t, s, in, stack.now).cancel
                         /\ tt = poll_udp(t, s, in, stack.now).task
                         /\ ss = poll_udp(t, s, in, stack.now).sock
               ELSE IF Failing(stack.udp_conn) = {} THEN tt = t /\ ss = s
               ELSE \E in \in UdpPollInputs(t, s) :
                      /\ ~poll_udp(t, s, in, stack.now).cancel
                      /\ tt = poll_udp(t, s, in, stack.now).task
                      /\ ss = poll_udp(t, s, in, stack.now).sock]_vars

\* two TCP flows: one failed and was torn down, the other still has its
\* established socket, its carry-over and an AbortHandle that is not cancelled
FailureTearsDownOneFlowWitness ==
  \E p, q \in DOMAIN stack.tcp_conn :
    /\ stack.tcp_conn[p].abort_handle \in stack.cancelled
    /\ stack.socket_set[stack.tcp_conn[p].handle].state = "FinWait1"
    /\ stack.tcp_conn[q].abort_handle \notin stack.cancelled
    /\ stack.tcp_conn[q].remain_to_send # Nothing
    /\ stack.socket_set[stack.tcp_conn[q].handle].state = "Established"

\* the ports whose TCP socket is in state Closed
ClosedPorts(st) ==
  {p \in DOMAIN st.tcp_conn : st.socket_set[st.tcp_conn[p].handle].state = "Closed"}

\* C25: whatever state the stack is in, purge_closed_tcp removes exactly the
\* tasks whose socket is Closed, with their sockets, and hands their
\* AbortHandles to cancel tasks; every other task, socket and AbortHandle is as
\* before; afterwards open_tcp finds the purged ports free and the others in use
PurgeRemovesClosedOnly ==
  LET purged == purge_closed_tcp(stack)
      closed == ClosedPorts(stack)
      kept == DOMAIN stack.tcp_conn \ closed
  IN /\ DOMAIN purged.tcp_conn = kept
     /\ DOMAIN purged.socket_set = DOMAIN stack.socket_set \ {stack.tcp_conn[p].handle : p \in closed}
     /\ \A p \in kept :
          /\ purged.tcp_conn[p] = stack.tcp_conn[p]
          /\ purged.socket_set[stack.tcp_conn[p].handle] = stack.socket_set[stack.tcp_conn[p].handle]
     /\ purged.pending = stack.pending \cup {stack.tcp_conn[p].abort_handle : p \in closed}
     /\ purged.cancelled = stack.cancelled
     /\ purged.udp_conn = stack.udp_conn
     /\ \A p \in closed : open_tcp(purged, p, TRUE, stack.opened + 1).res = "Ok"
     /\ \A p \in kept : open_tcp(purged, p, TRUE, stack.opened + 1).res = "AddrInUse"

\* the first flow was purged, its cancel task is spawned and has not run yet,
\* and the open_tcp called after the purge succeeded
PurgeRemovesClosedOnlyWitness ==
  /\ stack.pending = {1}
  /\ stack.opened = 2
  /\ stack.last.op = "open_tcp" /\ stack.last.res = "Ok"
  /\ \E p \in DOMAIN stack.tcp_conn : stack.tcp_conn[p].abort_handle = 2

\* C26: whenever a UDP task reads a datagram, one whose source endpoint is not
\* the task's dest is taken from the socket and nothing else changes: it is
\* not queued for the application and last_active stays; one from dest is
\* queued and last_active becomes the time of the read
MismatchedDatagramDropped ==
  \A p \in DOMAIN stack.udp_conn :
    LET t == stack.udp_conn[p]
        s == stack.socket_set[t.handle]
        later == stack.now + 1
        r == udp_try_recv(t, s, TRUE, later)
    IN (s.open /\ s.inq # <<>> /\ capacity(t) > 0) =>
         /\ r.sock.inq = Tail(s.inq)
         /\ IF Head(s.inq) = t.dest
            THEN r.task = [t EXCEPT !.back = @ + 1, !.last_active = later]
            ELSE r.task = t

\* a datagram from another endpoint waits in the socket of a task that has
\* room in its back channel and has been idle for a while
MismatchedDatagramDroppedWitness ==
  \E p \in DOMAIN stack.udp_conn :
    LET t == stack.udp_conn[p]
        s == stack.socket_set[t.handle]
    IN /\ s.open /\ s.inq # <<>> /\ Head(s.inq) # t.dest
       /\ capacity(t) > 0
       /\ stack.now > t.last_active

\* the UDP ports that have been idle for longer than udp_timeout
IdlePorts(st) == {p \in DOMAIN st.udp_conn : st.now - st.udp_conn[p].last_active > UdpTimeout}

\* C27: whatever state the stack is in, purge_timeout_udp removes exactly the
\* UDP tasks whose last activity (creation, successful send, matching receive)
\* is more than udp_timeout back, with their sockets, and hands their
\* AbortHandles to cancel tasks; a task active within udp_timeout is kept as it is
IdleUdpPurged ==
  LET purged == purge_timeout_udp(stack)
      idle == IdlePorts(stack)
      kept == DOMAIN stack.udp_conn \ idle
  IN /\ DOMAIN purged.udp_conn = kept
     /\ DOMAIN purged.socket_set = DOMAIN stack.socket_set \ {stack.udp_conn[p].handle : p \in idle}
     /\ \A p \in kept :
          /\ purged.udp_conn[p] = stack.udp_conn[p]
          /\ purged.socket_set[stack.udp_conn[p].handle] = stack.socket_set[stack.udp_conn[p].handle]
     /\ purged.pending = stack.pending \cup {stack.udp_conn[p].abort_handle : p \in idle}
     /\ purged.tcp_conn = stack.tcp_conn
     /\ \A p \in DOMAIN stack.udp_conn, in \in PollInputs :
          LET t == stack.udp_conn[p]
              sent == udp_try_send(t, stack.socket_set[t.handle], in, stack.now + 1)
          IN sent.task.last_active =
               IF in.can_send /\ t.rx # <<>> /\ in.send_ok THEN stack.now + 1 ELSE t.last_active

\* the first flow was purged for idleness while the second, active within
\* udp_timeout, is still there
IdleUdpPurgedWitness ==
  /\ stack.pending \cup stack.cancelled = {1}
  /\ \E p \in DOMAIN stack.udp_conn :
       /\ stack.udp_conn[p].abort_handle = 2
       /\ stack.now - stack.udp_conn[p].last_active <= UdpTimeout
       /\ stack.now = 2
       /\ stack.socket_set[stack.udp_conn[p].handle].open
       /\ DOMAIN stack.udp_conn = {p}


----------------------------------------------------------------------------
(* Properties of the loopback inbounds *)

\* the request is a CONNECT for HTTP/1.1 with a target that parses
IsConnect(req) == req.method = "CONNECT" /\ req.version = 1 /\ req.path_ok

\* the request carries a Proxy-Authorization: Basic header for the credential
HasCredential(auth, req) ==
  \/ auth = Nothing
  \/ \E i \in 1..Len(req.creds) :
       /\ req.creds[i].utf8
       /\ req.creds[i].scheme = "basic "
       /\ req.creds[i].decoded = auth[1]

\* what holds of every served connection: a flow is submitted only for an
\* authorised CONNECT and after 200, and no connection gets two answers
HttpSubmitsOnlyAuthorised ==
  inb.pc \in {"http", "closed"} /\ "req" \in DOMAIN inb =>
    /\ inb.out.submitted =>
         /\ inb.req.framing = "complete"
         /\ IsConnect(inb.req)
         /\ HasCredential(inb.auth, inb.req)
         /\ inb.out.wrote = <<"200">>
    /\ inb.out.wrote \in {<<>>, <<"200">>, <<"403">>}

\* C28: the HTTP inbound submits a flow only for a CONNECT of HTTP/1.1 whose
\* target parses and whose credential matches when one is configured, after
\* writing 200; every complete non-CONNECT request and every complete request
\* failing authentication is answered 403 and not submitted; no connection is
\* answered both 200 and 403.
HttpRefusalAnswered ==
  inb.pc = "http" =>
    /\ HttpSubmitsOnlyAuthorised
    /\ (/\ inb.req.framing = "complete"
        /\ \/ inb.req.method # "CONNECT"
           \/ IsConnect(inb.req) /\ ~HasCredential(inb.auth, inb.req))
       => inb.out.wrote = <<"403">> /\ ~inb.out.submitted

\* the same with the requests that httparse rejects set aside
HttpRefusalAnsweredWhenParsed ==
  inb.pc = "http" /\ Len(inb.req.creds) + inb.req.others <= HeaderSlots =>
    /\ HttpSubmitsOnlyAuthorised
    /\ (/\ inb.req.framing = "complete"
        /\ \/ inb.req.method # "CONNECT"
           \/ IsConnect(inb.req) /\ ~HasCredential(inb.auth, inb.req))
       => inb.out.wrote = <<"403">> /\ ~inb.out.submitted


\* the one method the claim names for the connection's inbound
OneSupportedMethod ==
  IF inb.auth = Nothing THEN SOCKS5_AUTH_METHOD_NONE ELSE SOCKS5_AUTH_METHOD_PASSWORD

\* the method negotiation of the connection succeeded with that method
Negotiated ==
  /\ inb.greeting.version = SOCKS5_VERSION
  /\ OneSupportedMethod \in inb.greeting.methods
  /\ Len(inb.wrote) >= 1
  /\ inb.wrote[1] = <<SOCKS5_VERSION, OneSupportedMethod>>

\* C29: the SOCKS5 inbound submits a flow only after the method negotiation
\* succeeded with the one supported method (username/password with
\* authentication configured, no authentication otherwise) and, with
\* authentication, the username and the password both matched; a client that
\* offers no supported method is answered 0xFF and never served.
SocksServesOnlyNegotiated ==
  "greeting" \in DOMAIN inb =>
    /\ inb.flow # "none" =>
         /\ Negotiated
         /\ inb.auth # Nothing =>
              /\ inb.sub # Nothing
              /\ inb.sub[1].username = inb.auth[1].username
              /\ inb.sub[1].password = inb.auth[1].password
    /\ (/\ inb.greeting.version = SOCKS5_VERSION
        /\ OneSupportedMethod \notin inb.greeting.methods)
       => /\ inb.wrote = <<<<SOCKS5_VERSION, 255>>>>
          /\ inb.flow = "none"
          /\ inb.pc \in {"socks", "closed"}
          /\ inb.req = Nothing

\* a UDP association was submitted for a client that authenticated
SocksServesOnlyNegotiatedWitness ==
  /\ "greeting" \in DOMAIN inb
  /\ inb.auth # Nothing
  /\ inb.flow = "udp"
  /\ inb.sub # Nothing

\* a client of an inbound with authentication that offers no
\* username/password method has been refused
SocksRefusedWitness ==
  /\ "greeting" \in DOMAIN inb
  /\ inb.auth # Nothing
  /\ inb.greeting.version = SOCKS5_VERSION
  /\ inb.greeting.methods = {SOCKS5_AUTH_METHOD_NONE}
  /\ inb.pc = "socks"

\* C30: with authentication configured, a client that follows RFC 1929
\* (sub-negotiation version byte 0x01, the configured username and password)
\* is authenticated with the success status and its following request is
\* served.
Rfc1929ClientServed ==
  (/\ "greeting" \in DOMAIN inb
   /\ inb.auth # Nothing
   /\ inb.sub # Nothing
   /\ inb.sub[1].version = RFC1929_VERSION
   /\ inb.sub[1].username = inb.auth[1].username
   /\ inb.sub[1].password = inb.auth[1].password)
  => /\ Len(inb.wrote) >= 2
     /\ inb.wrote[2] = <<RFC1929_VERSION, SOCKS5_REPLY_SUCCEEDED>>
     /\ inb.pc # "socks" \/ inb.req # Nothing


\* the messages written to the client by the end of the negotiation
NegotiationReplies == IF inb.auth = Nothing THEN 1 ELSE 2

\* C31: a SOCKS5 request that fails after the negotiation, in particular one
\* whose command is neither CONNECT nor UDP ASSOCIATE, is answered with a
\* SOCKS5 reply carrying an error byte before the connection is closed, and
\* is never submitted to the dispatcher.
SocksFailureAnswered ==
  (/\ "greeting" \in DOMAIN inb
   /\ inb.req # Nothing
   /\ inb.req[1].version = SOCKS5_VERSION
   /\ inb.req[1].addr_ok
   /\ inb.req[1].cmd \notin {SOCKS5_CMD_TCP_CONNECT, SOCKS5_CMD_UDP_ASSOCIATE}
   /\ ~inb.ok)
  => /\ inb.flow = "none"
     /\ Len(inb.wrote) = NegotiationReplies + 1
     /\ inb.wrote[Len(inb.wrote)][1] = SOCKS5_VERSION
     /\ inb.wrote[Len(inb.wrote)][2] # SOCKS5_REPLY_SUCCEEDED

\* the part of it that holds: a failed request is never submitted
SocksFailureNotSubmitted ==
  "greeting" \in DOMAIN inb /\ ~inb.ok => inb.flow = "none"


----------------------------------------------------------------------------
(* Properties of the session NAT and the TUN TCP inbound *)

\* the Tcp entries registered for the port
TcpSessions(port) == {e \in nat.table : e.kind = "Tcp" /\ e.port = port}

\* the destination the claim names for a recorded destination
ClaimedDst(dst) ==
  IF fake_ip_to_domain(dst.ip) # Nothing
  THEN [t |-> "DomainName", domain_name |-> fake_ip_to_domain(dst.ip)[1], port |-> dst.port]
  ELSE [t |-> "Raw", a |-> dst]

\* C32: for each connection accepted on the NAT listener the TUN TCP inbound
\* looks the session up by the accepted source port: on a miss nothing is
\* submitted, nothing changes and the loop goes on accepting; on a hit one
\* flow is submitted with inbound Tun, the recorded src, and as dst the domain
\* name with the recorded port when the recorded IP is a fake IP, else the
\* recorded address.
TunSubmitsRecordedSession ==
  [][nat'.accepts = nat.accepts + 1 =>
       /\ nat'.listening
       /\ TcpSessions(nat'.port) = {} => nat'.flow = NoFlow /\ nat'.table = nat.table
       /\ \A e \in TcpSessions(nat'.port) :
            nat'.flow = [port |-> nat'.port, inbound |-> "Tun", src |-> e.src, dst |-> ClaimedDst(e.dst)]]_vars

\* a connection from the port of a session to a fake IP has been submitted
\* with the domain name
TunSubmitsRecordedSessionWitness ==
  /\ nat.accepts > 0
  /\ nat.flow # NoFlow
  /\ nat.flow.dst = [t |-> "DomainName", domain_name |-> "a.com", port |-> 80]
  /\ nat.flow.src = "src1"

\* a connection from a port without session has been dropped
TunMissWitness ==
  /\ nat.accepts > 0
  /\ nat.flow = NoFlow
  /\ nat.table # {}
  /\ nat.listening

\* C33: the indicator of a flow starts at 2 and never increases while the
\* flow lives; the TUN inbound's handling of a failed submit only lowers it
\* (to 0).
IndicatorNeverIncreases ==
  [][\A n \in nat'.table :
       LET before == {e \in nat.table : e.kind = n.kind /\ e.port = n.port}
       IN /\ before = {} => n.indicator = 2
          /\ \A e \in before : n.indicator <= e.indicator]_vars

\* the submit of a flow whose indicator was still 2 failed and the inbound
\* stored 0
IndicatorNeverIncreasesWitness ==
  /\ nat.accepts > 0
  /\ nat.flow # NoFlow
  /\ \E e \in TcpSessions(nat.flow.port) : e.indicator = 0 /\ e.zero_at = Some(nat.now)


\* the entries of the table registered for the port within the kind
Sessions(table, kind, port) == {e \in table : e.kind = kind /\ e.port = port}

NatEvictedWitness ==
  /\ nat.now >= 2 * FlushInterval
  /\ \E e \in nat.table : e.kind = "Udp" /\ e.last_seen = nat.now


\* C35: once the indicator of an entry has reached 0, the entry is removed
\* within grace + 1 s, the flush being driven at the interval main sets.
ReapedWithinGrace ==
  \A e \in nat.table :
    e.indicator = 0 => nat.now <= e.zero_at[1] + Grace + 1

\* what the flush timer of main does give: removal within the grace period
\* and one flush interval
ReapedWithinGraceAndInterval ==
  \A e \in nat.table :
    e.indicator = 0 => nat.now <= e.zero_at[1] + Grace + FlushInterval


----------------------------------------------------------------------------
(* Properties of the process *)

\* the fatal errors of the initialisation the claim lists
FatalInitErrors ==
  {"is_root", "load_config", "parse_dns_config", "build", "load_cert_and_key", "TunDevice::open"}

\* C36: the process exits with code 1 on every fatal initialisation error
\* (not root, config load or parse failure, DNS config failure, rule build
\* failure, certificate load failure, TUN open failure) and with code 0 on
\* normal shutdown (Ctrl-C or the control channel closing).
ExitCodes ==
  main.pc = "exited" =>
    /\ main.cause \in FatalInitErrors => main.code = 1
    /\ main.cause \in {"ctrl_c", "channel_closed"} => main.code = 0

\* the same for the errors main returns on
ExitCodesOfReturns ==
  main.pc = "exited" =>
    /\ main.cause \in FatalInitErrors \ {"TunDevice::open"} => main.code = 1
    /\ main.cause \in {"ctrl_c", "channel_closed"} => main.code = 0


----------------------------------------------------------------------------
(* Properties of the builder's group resolution *)

\* C37: DispatchingBuilder::new returns Ok or Err for every configuration;
\* when a group or chain lists a group that ends with no available proxy (and
\* is skipped), resolving that member yields an error or a defined proxy and
\* does not abort the build.
BuildNeverAborts ==
  cfg.kind = "groups" => bld.status \in {"ok", "err"}

\* the same for the configurations in which no group can end without member
BuildNeverAbortsWithMembers ==
  cfg.kind = "groups" /\ ~MayBeEmpty(cfg.c) => bld.status \in {"ok", "err"}


\* nothing but a cycle could make the configuration fail: no two names
\* clash, every body is valid, every member is a proxy or a declared group,
\* and no group is left without member
WellFormed(c) ==
  /\ ~NameClash(c)
  /\ ~MayBeEmpty(c)
  /\ \A g \in Declared(c) :
       /\ roughly_validate(BodyOf(c, g))
       /\ \A k \in 1..Len(BodyOf(c, g).proxies) :
            BodyOf(c, g).proxies[k] \in PlainProxies(c) \cup Declared(c)

\* C38: an acyclic group configuration builds successfully also when a group
\* or chain is referenced by several groups or reached along several paths,
\* in every declaration order: the in-progress set holds the groups on the
\* current resolution path only (none once the build is over), so no group
\* that is not an ancestor is reported as a duplicate.
SharedGroupsBuild ==
  (cfg.kind = "groups" /\ ~Cyclic(cfg.c)) =>
    /\ bld.err # "Duplicate group name"
    /\ bld.status = "ok" => bld.queued = {}
    /\ WellFormed(cfg.c) =>
         /\ bld.status = "ok"
         /\ \A g \in Declared(cfg.c) : g \in Taken(bld)

\* A lists B and C, B lists C: C is referenced twice and reached along two
\* paths, A being declared first
SharedGroupsBuildWitness ==
  /\ cfg.kind = "groups"
  /\ Len(cfg.c.proxy_group) = 3
  /\ cfg.c.proxy_group[1] = GroupDecl("A", GroupBody(<<"B", "C">>, <<>>))
  /\ BodyOf(cfg.c, "B") = GroupBody(<<"C">>, <<>>)
  /\ BodyOf(cfg.c, "C") = GroupBody(<<"H">>, <<>>)
  /\ bld.status = "ok"
  /\ DOMAIN bld.groups = {"A", "B", "C"}

----------------------------------------------------------------------------
(* Properties of the forwarding task and the drive loop *)

\* the socket would take bytes: can_send() as the last pass left it
SocketCanSend == MaySend(sock) /\ drv.window /\ ~task.aborted

\* C39: the forwarding task enqueues a buffer before it signals the Notify: a
\* drive loop woken by the signal finds a buffer in the ingress queue, unless
\* a pass has taken it already and the forwarding task is back in recv() with
\* no buffer in its hands; and while the loop sleeps with no signal on its way
\* and the socket can send, no buffer waits in the ingress queue or as the
\* carry-over
NoLostWakeup ==
  /\ drv.loop = "woken" => (task.rx # <<>> \/ drv.pos = "recv")
  /\ (drv.loop = "asleep" /\ drv.pos = "recv" /\ SocketCanSend)
       => (task.rx = <<>> /\ task.remain_to_send = Nothing)

\* the loop slept, a written buffer woke it, the pass sent every byte, and the
\* loop sleeps again
NoLostWakeupWitness ==
  /\ drv.loop = "asleep" /\ drv.pos = "recv" /\ SocketCanSend
  /\ app.bufs = MaxBufs /\ app.bytes > 0 /\ app.back = <<>>
  /\ Len(Flatten(sock.tx)) = app.bytes

\* the loop has been woken by the signal of a buffer it finds in the queue
WokenWitness == drv.loop = "woken" /\ task.rx # <<>> /\ SocketCanSend

----------------------------------------------------------------------------
(* Properties of the buffer pool *)

\* C40: after any sequence of polls in which no send failed, the buffers
\* outside the pool are those in the queues of the tasks and their
\* carry-overs: every buffer try_recv obtained was delivered to the back
\* channel or released, every buffer try_send took from the ingress queue was
\* released once sent
PoolAccounted == stack.cancelled = {} => drv.outside = InQueues(stack)

\* no buffer is released twice: the buffers outside the pool are never fewer
\* than those in the queues and the carry-overs
PoolNeverOverReleased == drv.outside >= InQueues(stack)

====
